---- MODULE Spec2Model ----
(***************************************************************************)
(* auth-service of gsrlabs/micro-blog-hub: the users table, the            *)
(* repository (authRepo), the account service (authService), the JWT the   *)
(* service issues and the AuthMiddleware that verifies it.                 *)
(*                                                                         *)
(* Strings of the program are TLA+ strings; a uuid is a positive integer   *)
(* (uuid.Nil is 0); an instant is a whole number of seconds, the precision *)
(* jwt.NumericDate keeps.                                                  *)
(***************************************************************************)
EXTENDS Integers, Sequences, FiniteSets, TLC

VARIABLES
    users,    \* the rows of table users
    nextID,   \* the next uuid gen_random_uuid() hands out
    now,      \* the wall clock, in seconds
    cfg,      \* config.Config, loaded at start and never changed
    issued,   \* token strings returned by Login that clients still hold
    last,     \* the call that ran last, with what it returned
    store,    \* whether the pool reaches the database: "up" or "down"
    procs,    \* the service calls in flight, one frame per client
    server    \* the process: where run stands, and its http.Server

vars == <<users, nextID, now, cfg, issued, last, store, procs, server>>

----------------------------------------------------------------------------
(* Bounds of the model *)

MaxUsers == 2     \* rows ever inserted
MaxHours == 1     \* the clock runs over the first seconds of hours 0..MaxHours,
                  \* and jwt.expiration_hours is drawn from 1..MaxHours
MaxTokens == 1    \* tokens clients hold at once
NumProcs == 3     \* clients whose calls run concurrently
MaxConns == 2     \* requests the HTTP server is handling at once

SecondsPerHour == 3600

Usernames == {"u1", "u2"}
Emails == {"e1", "e2"}
Passwords == {"pw1", "pw2"}
IDs == 1..MaxUsers
NilUUID == 0

Instants == {h * SecondsPerHour + s : h \in 0..MaxHours, s \in {0, 1}}

----------------------------------------------------------------------------
(* Errors.  kind is the identity of the error value (a sentinel variable, *)
(* or the type of a value made on the spot), msg is Error(), wraps is the  *)
(* kind of the error it wraps with %w ("" when none), code is the SQLSTATE *)
(* of a *pgconn.PgError.                                                   *)

Err(kind, msg, wraps, code) ==
    [kind |-> kind, msg |-> msg, wraps |-> wraps, code |-> code]

NoErr == Err("nil", "", "", "")

ErrNotFound == Err("repository.ErrNotFound", "user not found", "", "")
ErrDuplicateUsername ==
    Err("repository.ErrDuplicateUsername", "username already taken", "", "")
ErrDuplicateEmail ==
    Err("repository.ErrDuplicateEmail", "email already taken", "", "")

\* pgx.ErrNoRows: what QueryRow(...).Scan returns when no row matches
PgxErrNoRows == Err("pgx.ErrNoRows", "no rows in result set", "", "")

\* the *pgconn.PgError of a violated UNIQUE constraint (SQLSTATE 23505)
PgUniqueViolation(constraint) ==
    Err("pgconn.PgError",
        "ERROR: duplicate key value violates unique constraint "
            \o constraint \o " (SQLSTATE 23505)",
        "", "23505")

\* fmt.Errorf(prefix + ": %w", err)
Wrap(prefix, err) ==
    Err("fmt.wrapError", prefix \o ": " \o err.msg,
        IF err.wraps = "" THEN err.kind ELSE err.wraps, err.code)

\* fmt.Errorf(msg) without a verb: a fresh error value with that text
Errorf(msg) == Err("fmt.errorString", msg, "", "")

\* errors.Is(err, target) for a sentinel target
ErrorsIs(err, target) == err.kind = target.kind \/ err.wraps = target.kind

\* errors.As(err, &pgErr) && pgErr.Code == code
IsPgCode(err, code) ==
    /\ err.kind = "pgconn.PgError" \/ err.wraps = "pgconn.PgError"
    /\ err.code = code

\* what pool.QueryRow(...).Scan, pool.Exec and pool.Query return while the
\* database cannot be reached
StoreErr ==
    Err("pgconn.ConnectError", "failed to connect to db: connection refused",
        "", "")

\* one call of a repository method by a service method: its name, its
\* arguments and the error it returned
Call(fn, args, err) == [fn |-> fn, args |-> args, err |-> err]

----------------------------------------------------------------------------
(* bcrypt.  A hash is "$2a$10$" + salt + digest; the digest of (salt, pw)  *)
(* is written symbolically as the text pw after the salt, which nothing in *)
(* the program reads back except CompareHashAndPassword below.             *)

BcryptPrefix == "$2a$10$"
Salts == {"s1"}
SaltLen == Len("s1")

\* bcrypt.GenerateFromPassword(pw, DefaultCost) with the salt it drew
GenerateFromPassword(salt, pw) == BcryptPrefix \o salt \o pw

\* bcrypt.CompareHashAndPassword(hash, pw) == nil: rehash pw with the
\* salt and cost read from hash and compare
CompareHashAndPassword(hash, pw) ==
    LET n == Len(BcryptPrefix) IN
    /\ Len(hash) > n + SaltLen
    /\ SubSeq(hash, 1, n) = BcryptPrefix
    /\ GenerateFromPassword(SubSeq(hash, n + 1, n + SaltLen), pw) = hash

----------------------------------------------------------------------------
(* Table users (migrations/0001_init_users.sql) and the statements the    *)
(* repository runs against it.                                             *)

NoUser == [ID |-> NilUUID, Username |-> "", Email |-> "", Password |-> "",
           CreatedAt |-> 0, UpdatedAt |-> 0]

UserIDs(rows) == {r.ID : r \in rows}

RowByID(rows, id) == CHOOSE r \in rows : r.ID = id
RowByEmail(rows, email) == CHOOSE r \in rows : r.Email = email

\* UNIQUE on username and on email; PRIMARY KEY on id
TableOK(rows) ==
    \A r1, r2 \in rows :
        (r1.ID = r2.ID \/ r1.Username = r2.Username \/ r1.Email = r2.Email)
            => r1 = r2

\* an INSERT into a table without the UNIQUE constraints
DbInsert_NoUnique(rows, id, t, username, email, hash) ==
    IF store # "up" THEN [users |-> rows, id |-> NilUUID, err |-> StoreErr]
    ELSE [users |-> rows \cup {[ID |-> id, Username |-> username,
                                Email |-> email, Password |-> hash,
                                CreatedAt |-> t, UpdatedAt |-> t]},
          id |-> id, err |-> NoErr]

\* INSERT INTO users (username, email, password_hash) VALUES ... RETURNING id
\* with id DEFAULT gen_random_uuid() and both timestamps DEFAULT
\* CURRENT_TIMESTAMP; the username index is checked before the email index
DbInsert(rows, id, t, username, email, hash) ==
    IF store # "up" THEN [users |-> rows, id |-> NilUUID, err |-> StoreErr]
    ELSE IF \E r \in rows : r.Username = username
    THEN [users |-> rows, id |-> NilUUID,
          err |-> PgUniqueViolation("users_username_key")]
    ELSE IF \E r \in rows : r.Email = email
    THEN [users |-> rows, id |-> NilUUID,
          err |-> PgUniqueViolation("users_email_key")]
    ELSE [users |-> rows \cup {[ID |-> id, Username |-> username,
                                Email |-> email, Password |-> hash,
                                CreatedAt |-> t, UpdatedAt |-> t]},
          id |-> id, err |-> NoErr]

\* SELECT ... FROM users WHERE id = $1, scanned by QueryRow(...).Scan
DbSelectByID(rows, id) ==
    IF store # "up" THEN [user |-> NoUser, err |-> StoreErr]
    ELSE IF \E r \in rows : r.ID = id
    THEN [user |-> RowByID(rows, id), err |-> NoErr]
    ELSE [user |-> NoUser, err |-> PgxErrNoRows]

\* SELECT ... FROM users WHERE email = $1
DbSelectByEmail(rows, email) ==
    IF store # "up" THEN [user |-> NoUser, err |-> StoreErr]
    ELSE IF \E r \in rows : r.Email = email
    THEN [user |-> RowByEmail(rows, email), err |-> NoErr]
    ELSE [user |-> NoUser, err |-> PgxErrNoRows]

\* an UPDATE that checked the username index before it looked for the row
DbUpdateUsername_ConflictFirst(rows, id, t, username) ==
    IF store # "up" THEN [users |-> rows, affected |-> 0, err |-> StoreErr]
    ELSE IF \E r \in rows : r.ID # id /\ r.Username = username
    THEN [users |-> rows, affected |-> 0,
          err |-> PgUniqueViolation("users_username_key")]
    ELSE IF id \notin UserIDs(rows)
    THEN [users |-> rows, affected |-> 0, err |-> NoErr]
    ELSE [users |-> {IF r.ID = id
                     THEN [r EXCEPT !.Username = username, !.UpdatedAt = t]
                     ELSE r : r \in rows},
          affected |-> 1, err |-> NoErr]

\* UPDATE users SET username = $1, updated_at = NOW() WHERE id = $2
DbUpdateUsername(rows, id, t, username) ==
    IF store # "up" THEN [users |-> rows, affected |-> 0, err |-> StoreErr]
    ELSE IF id \notin UserIDs(rows)
    THEN [users |-> rows, affected |-> 0, err |-> NoErr]
    ELSE IF \E r \in rows : r.ID # id /\ r.Username = username
    THEN [users |-> rows, affected |-> 0,
          err |-> PgUniqueViolation("users_username_key")]
    ELSE [users |-> {IF r.ID = id
                     THEN [r EXCEPT !.Username = username, !.UpdatedAt = t]
                     ELSE r : r \in rows},
          affected |-> 1, err |-> NoErr]

\* UPDATE users SET email = $1, updated_at = NOW() WHERE id = $2
DbUpdateEmail(rows, id, t, email) ==
    IF store # "up" THEN [users |-> rows, affected |-> 0, err |-> StoreErr]
    ELSE IF id \notin UserIDs(rows)
    THEN [users |-> rows, affected |-> 0, err |-> NoErr]
    ELSE IF \E r \in rows : r.ID # id /\ r.Email = email
    THEN [users |-> rows, affected |-> 0,
          err |-> PgUniqueViolation("users_email_key")]
    ELSE [users |-> {IF r.ID = id
                     THEN [r EXCEPT !.Email = email, !.UpdatedAt = t]
                     ELSE r : r \in rows},
          affected |-> 1, err |-> NoErr]

\* an UPDATE of the password that also stamps created_at
DbUpdatePassword_StampsCreated(rows, id, t, hash) ==
    IF store # "up" THEN [users |-> rows, affected |-> 0, err |-> StoreErr]
    ELSE IF id \notin UserIDs(rows)
    THEN [users |-> rows, affected |-> 0, err |-> NoErr]
    ELSE [users |-> {IF r.ID = id
                     THEN [r EXCEPT !.Password = hash, !.UpdatedAt = t,
                                    !.CreatedAt = t]
                     ELSE r : r \in rows},
          affected |-> 1, err |-> NoErr]

\* UPDATE users SET password_hash = $1, updated_at = NOW() WHERE id = $2
DbUpdatePassword(rows, id, t, hash) ==
    IF store # "up" THEN [users |-> rows, affected |-> 0, err |-> StoreErr]
    ELSE IF id \notin UserIDs(rows)
    THEN [users |-> rows, affected |-> 0, err |-> NoErr]
    ELSE [users |-> {IF r.ID = id
                     THEN [r EXCEPT !.Password = hash, !.UpdatedAt = t]
                     ELSE r : r \in rows},
          affected |-> 1, err |-> NoErr]

\* a DELETE that reports the row as deleted and leaves it in the table
DbDelete_KeepsRow(rows, id) ==
    IF store # "up" THEN [users |-> rows, affected |-> 0, err |-> StoreErr]
    ELSE [users |-> rows,
          affected |-> IF id \in UserIDs(rows) THEN 1 ELSE 0,
          err |-> NoErr]

\* DELETE FROM users WHERE id = $1
DbDelete(rows, id) ==
    IF store # "up" THEN [users |-> rows, affected |-> 0, err |-> StoreErr]
    ELSE [users |-> {r \in rows : r.ID # id},
          affected |-> IF id \in UserIDs(rows) THEN 1 ELSE 0,
          err |-> NoErr]

\* the *pgconn.PgError of a negative LIMIT (2201W) or OFFSET (2201X)
PgInvalidRowCount(clause, code) ==
    Err("pgconn.PgError",
        "ERROR: " \o clause \o " must not be negative (SQLSTATE " \o code \o ")",
        "", code)

Min(a, b) == IF a < b THEN a ELSE b

\* the sequences that hold every row of the table once
Perms(rows) ==
    {f \in [1..Cardinality(rows) -> rows] :
        \A i, j \in 1..Cardinality(rows) : i # j => f[i] # f[j]}

\* ORDER BY created_at DESC: the orders the rows may come in (rows created at
\* the same instant come in either order)
NewestFirst(rows) ==
    {ord \in Perms(rows) :
        \A i, j \in 1..Len(ord) : i < j => ord[i].CreatedAt >= ord[j].CreatedAt}

\* a listing that selects password_hash with the other columns
ScanListed_WithHash(r) == r

\* the columns GetUsers selects, scanned into a model.User: password_hash is
\* not among them and Password keeps its zero value
ScanListed(r) == [r EXCEPT !.Password = ""]

\* the rows from the one at position offset the other way round
DbSelectUsers_OldestFirst(rows, ord, limit, offset) ==
    IF store # "up" THEN [rows |-> <<>>, err |-> StoreErr]
    ELSE IF offset < 0
    THEN [rows |-> <<>>, err |-> PgInvalidRowCount("OFFSET", "2201X")]
    ELSE IF limit < 0
    THEN [rows |-> <<>>, err |-> PgInvalidRowCount("LIMIT", "2201W")]
    ELSE LET n == Len(ord)
             to == Min(n, offset + limit)
         IN  [rows |-> [i \in 1..(IF offset < to THEN to - offset ELSE 0) |->
                           ScanListed(ord[n + 1 - (offset + i)])],
              err |-> NoErr]

\* SELECT id, username, email, created_at, updated_at FROM users
\* ORDER BY created_at DESC LIMIT $1 OFFSET $2, the rows coming in order ord;
\* the executor evaluates OFFSET before LIMIT and rejects a negative value
DbSelectUsers(rows, ord, limit, offset) ==
    IF store # "up" THEN [rows |-> <<>>, err |-> StoreErr]
    ELSE IF offset < 0
    THEN [rows |-> <<>>, err |-> PgInvalidRowCount("OFFSET", "2201X")]
    ELSE IF limit < 0
    THEN [rows |-> <<>>, err |-> PgInvalidRowCount("LIMIT", "2201W")]
    ELSE LET to == Min(Len(ord), offset + limit) IN
         [rows |-> [i \in 1..(IF offset < to THEN to - offset ELSE 0) |->
                       ScanListed(ord[offset + i])],
          err |-> NoErr]

----------------------------------------------------------------------------
(* repository.authRepo *)

\* authRepo.Create
RepoCreate(rows, id, t, user) ==
    LET q == DbInsert(rows, id, t, user.Username, user.Email, user.Password) IN
    IF q.err # NoErr
    THEN [users |-> q.users, id |-> NilUUID, err |-> Wrap("insert user", q.err)]
    ELSE [users |-> q.users, id |-> q.id, err |-> NoErr]

\* authRepo.GetByID
RepoGetByID(rows, id) == DbSelectByID(rows, id)

\* authRepo.GetByEmail
RepoGetByEmail(rows, email) == DbSelectByEmail(rows, email)

\* authRepo.UpdateProfile
RepoUpdateProfile(rows, id, t, username) ==
    LET q == DbUpdateUsername(rows, id, t, username) IN
    IF q.err # NoErr
    THEN [users |-> q.users,
          err |-> IF IsPgCode(q.err, "23505") THEN ErrDuplicateUsername
                  ELSE Wrap("db update profile", q.err)]
    ELSE IF q.affected = 0 THEN [users |-> q.users, err |-> ErrNotFound]
    ELSE [users |-> q.users, err |-> NoErr]

\* UpdateEmail without the translation of SQLSTATE 23505
RepoUpdateEmail_NoMapping(rows, id, t, email) ==
    LET q == DbUpdateEmail(rows, id, t, email) IN
    IF q.err # NoErr
    THEN [users |-> q.users, err |-> Wrap("db update email", q.err)]
    ELSE IF q.affected = 0 THEN [users |-> q.users, err |-> ErrNotFound]
    ELSE [users |-> q.users, err |-> NoErr]

\* authRepo.UpdateEmail
RepoUpdateEmail(rows, id, t, email) ==
    LET q == DbUpdateEmail(rows, id, t, email) IN
    IF q.err # NoErr
    THEN [users |-> q.users,
          err |-> IF IsPgCode(q.err, "23505") THEN ErrDuplicateEmail
                  ELSE Wrap("db update email", q.err)]
    ELSE IF q.affected = 0 THEN [users |-> q.users, err |-> ErrNotFound]
    ELSE [users |-> q.users, err |-> NoErr]

\* authRepo.UpdatePassword
RepoUpdatePassword(rows, id, t, hash) ==
    LET q == DbUpdatePassword(rows, id, t, hash) IN
    IF q.err # NoErr THEN [users |-> q.users, err |-> q.err]
    ELSE IF q.affected = 0 THEN [users |-> q.users, err |-> ErrNotFound]
    ELSE [users |-> q.users, err |-> NoErr]

\* Delete without the RowsAffected check
RepoDelete_Idempotent(rows, id) ==
    LET q == DbDelete(rows, id) IN
    IF q.err # NoErr THEN [users |-> q.users, err |-> q.err]
    ELSE [users |-> q.users, err |-> NoErr]

\* authRepo.Delete
RepoDelete(rows, id) ==
    LET q == DbDelete(rows, id) IN
    IF q.err # NoErr THEN [users |-> q.users, err |-> q.err]
    ELSE IF q.affected = 0 THEN [users |-> q.users, err |-> ErrNotFound]
    ELSE [users |-> q.users, err |-> NoErr]

\* authRepo.GetUsers: a nil slice with the error, or the slice made with
\* make([]*model.User, 0) and the rows appended to it
RepoGetUsers(rows, ord, limit, offset) ==
    LET q == DbSelectUsers(rows, ord, limit, offset) IN
    IF q.err # NoErr THEN [users |-> <<>>, isNil |-> TRUE, err |-> q.err]
    ELSE [users |-> q.rows, isNil |-> FALSE, err |-> NoErr]

----------------------------------------------------------------------------
(* JSON Web Tokens (golang-jwt/jwt/v5).  A token string is written as the  *)
(* record of what its three segments decode to; segments # 3 stands for a  *)
(* string that is no compact JWS.  A signature is written symbolically as  *)
(* the method, the key and the signing input it was computed from.         *)

NoDate == -1    \* a nil *jwt.NumericDate

\* model.UserClaims
Claims(uid, username, iss, iat, exp) ==
    [user_id |-> uid, username |-> username, iss |-> iss, iat |-> iat,
     exp |-> exp]

NoClaims == Claims(NilUUID, "", "", NoDate, NoDate)

HMACAlgs == {"HS256", "HS384", "HS512"}   \* *jwt.SigningMethodHMAC
KnownAlgs == HMACAlgs \cup {"RS256", "none"}

Signature(alg, key, claims) == [alg |-> alg, key |-> key, claims |-> claims]
NoSignature == Signature("", "", NoClaims)

Token(segments, alg, claims, sig) ==
    [segments |-> segments, alg |-> alg, claims |-> claims, sig |-> sig]

\* a string that does not split into three segments (the empty string too)
Malformed == Token(1, "", NoClaims, NoSignature)

\* jwt.NewWithClaims(method, claims).SignedString(key)
SignedString(alg, claims, key) ==
    Token(3, alg, claims, Signature(alg, key, claims))

\* token.Method.Verify(signingInput, signature, key)
VerifySignature(tok, key) == tok.sig = Signature(tok.alg, key, tok.claims)

\* a validator that does not look at exp
ClaimsValidAt_NoExpiry(claims, t) == TRUE

\* jwt.Validator.Validate: exp, when present, must lie after the current
\* time; iat is not verified unless asked for, nbf is never set
ClaimsValidAt(claims, t) == claims.exp = NoDate \/ t < claims.exp

\* a keyFunc that hands out the secret whatever the method
KeyFuncOK_AnyAlg(tok) == TRUE

\* the keyFunc AuthMiddleware passes to jwt.ParseWithClaims
KeyFuncOK(tok) == tok.alg \in HMACAlgs

\* jwt.ParseWithClaims(tokenString, &model.UserClaims{}, keyFunc) at time t:
\* [valid, claims, err]
ParseWithClaims(tok, secret, t) ==
    IF tok.segments # 3 \/ tok.alg \notin KnownAlgs
    THEN [valid |-> FALSE, claims |-> NoClaims, err |-> "token is malformed"]
    ELSE IF ~KeyFuncOK(tok)
    THEN [valid |-> FALSE, claims |-> tok.claims,
          err |-> "token is unverifiable"]
    ELSE IF ~VerifySignature(tok, secret)
    THEN [valid |-> FALSE, claims |-> tok.claims,
          err |-> "token signature is invalid"]
    ELSE IF ~ClaimsValidAt(tok.claims, t)
    THEN [valid |-> FALSE, claims |-> tok.claims, err |-> "token is expired"]
    ELSE [valid |-> TRUE, claims |-> tok.claims, err |-> ""]

----------------------------------------------------------------------------
(* service.authService: each operator is one method, given the rows it     *)
(* finds and the values the environment supplies (the fresh uuid, the      *)
(* clock readings, the salt), and returns what the method returns together *)
(* with the rows it leaves and the calls it made of the repository, in     *)
(* order.                                                                  *)

\* Register persisting req.Password itself
SvcRegister_StoresPlaintext(rows, id, t, salt, req) ==
    LET user == [Username |-> req.Username, Email |-> req.Email,
                 Password |-> req.Password]
        r == RepoCreate(rows, id, t, user)
        calls == <<Call("Create", <<user.Username, user.Email>>, r.err)>>
    IN  IF r.err # NoErr
        THEN [users |-> r.users, id |-> NilUUID, err |-> r.err, calls |-> calls]
        ELSE [users |-> r.users, id |-> r.id, err |-> NoErr, calls |-> calls]

\* authService.Register
SvcRegister(rows, id, t, salt, req) ==
    LET user == [Username |-> req.Username, Email |-> req.Email,
                 Password |-> GenerateFromPassword(salt, req.Password)]
        r == RepoCreate(rows, id, t, user)
        calls == <<Call("Create", <<user.Username, user.Email>>, r.err)>>
    IN  IF r.err # NoErr
        THEN [users |-> r.users, id |-> NilUUID, err |-> r.err, calls |-> calls]
        ELSE [users |-> r.users, id |-> r.id, err |-> NoErr, calls |-> calls]

\* expirationTime computed without the factor time.Hour
LoginClaims_HoursAsSeconds(user, hours, t1, t2) ==
    Claims(user.ID, user.Username, "auth-service", t2, t1 + hours)

\* the claims Login builds: expirationTime from a first reading t1 of the
\* clock, IssuedAt from a second reading t2
LoginClaims(user, hours, t1, t2) ==
    Claims(user.ID, user.Username, "auth-service", t2,
           t1 + hours * SecondsPerHour)

\* Login handing the repository's error to the caller when no row matches
SvcLogin_LeaksNotFound(rows, c, t1, t2, req) ==
    LET r == RepoGetByEmail(rows, req.Email)
        calls == <<Call("GetByEmail", <<req.Email>>, r.err)>>
    IN
    IF r.err # NoErr
    THEN [token |-> Malformed, err |-> r.err, calls |-> calls]
    ELSE IF ~CompareHashAndPassword(r.user.Password, req.Password)
    THEN [token |-> Malformed, err |-> Errorf("invalid credentials"),
          calls |-> calls]
    ELSE [token |-> SignedString("HS256",
                        Claims(r.user.ID, r.user.Username, "auth-service", t2,
                               t1 + c.ExpirationHours * SecondsPerHour),
                        c.Secret),
          err |-> NoErr, calls |-> calls]

\* authService.Login
SvcLogin(rows, c, t1, t2, req) ==
    LET r == RepoGetByEmail(rows, req.Email)
        calls == <<Call("GetByEmail", <<req.Email>>, r.err)>>
    IN
    IF r.err # NoErr
    THEN [token |-> Malformed, err |-> Errorf("invalid credentials"),
          calls |-> calls]
    ELSE IF ~CompareHashAndPassword(r.user.Password, req.Password)
    THEN [token |-> Malformed, err |-> Errorf("invalid credentials"),
          calls |-> calls]
    ELSE [token |-> SignedString("HS256",
                        LoginClaims(r.user, c.ExpirationHours, t1, t2),
                        c.Secret),
          err |-> NoErr, calls |-> calls]

\* authService.GetByID
SvcGetByID(rows, id) ==
    LET r == RepoGetByID(rows, id) IN
    [user |-> r.user, err |-> r.err,
     calls |-> <<Call("GetByID", <<id>>, r.err)>>]

\* authService.GetByEmail
SvcGetByEmail(rows, email) ==
    LET r == RepoGetByEmail(rows, email) IN
    [user |-> r.user, err |-> r.err,
     calls |-> <<Call("GetByEmail", <<email>>, r.err)>>]

\* ChangeProfile handing on what the repository returned, wrapped
SvcChangeProfile_WrapsStorage(rows, id, t, username) ==
    LET r == RepoUpdateProfile(rows, id, t, username)
        calls == <<Call("UpdateProfile", <<id, username>>, r.err)>>
    IN
    IF r.err # NoErr
    THEN IF ErrorsIs(r.err, ErrDuplicateUsername) \/ ErrorsIs(r.err, ErrNotFound)
         THEN [users |-> r.users, err |-> r.err, calls |-> calls]
         ELSE [users |-> r.users, err |-> Wrap("internal error", r.err),
               calls |-> calls]
    ELSE [users |-> r.users, err |-> NoErr, calls |-> calls]

\* authService.ChangeProfile
SvcChangeProfile(rows, id, t, username) ==
    LET r == RepoUpdateProfile(rows, id, t, username)
        calls == <<Call("UpdateProfile", <<id, username>>, r.err)>>
    IN
    IF r.err # NoErr
    THEN IF ErrorsIs(r.err, ErrDuplicateUsername) \/ ErrorsIs(r.err, ErrNotFound)
         THEN [users |-> r.users, err |-> r.err, calls |-> calls]
         ELSE [users |-> r.users, err |-> Errorf("internal error"),
               calls |-> calls]
    ELSE [users |-> r.users, err |-> NoErr, calls |-> calls]

\* authService.ChangeEmail
SvcChangeEmail(rows, id, t, email) ==
    LET r == RepoUpdateEmail(rows, id, t, email)
        calls == <<Call("UpdateEmail", <<id, email>>, r.err)>>
    IN
    IF r.err # NoErr
    THEN IF ErrorsIs(r.err, ErrDuplicateEmail) \/ ErrorsIs(r.err, ErrNotFound)
         THEN [users |-> r.users, err |-> r.err, calls |-> calls]
         ELSE [users |-> r.users, err |-> Errorf("internal error"),
               calls |-> calls]
    ELSE [users |-> r.users, err |-> NoErr, calls |-> calls]

\* ChangePassword without the comparison of the old password
SvcChangePassword_NoOldCheck(rows, id, t, salt, req) ==
    LET g == RepoGetByID(rows, id)
        c1 == <<Call("GetByID", <<id>>, g.err)>>
    IN
    IF g.err # NoErr THEN [users |-> rows, err |-> g.err, calls |-> c1]
    ELSE LET u == RepoUpdatePassword(rows, id, t,
                      GenerateFromPassword(salt, req.NewPassword))
             c2 == c1 \o <<Call("UpdatePassword", <<id>>, u.err)>>
         IN  IF u.err # NoErr
             THEN [users |-> u.users, err |-> Errorf("internal error"),
                   calls |-> c2]
             ELSE [users |-> u.users, err |-> NoErr, calls |-> c2]

\* ChangePassword, lines 164-175: read the account and compare the old
\* password with its hash; ok tells whether the method goes on
ChangePasswordRead(rows, id, req) ==
    LET g == RepoGetByID(rows, id)
        calls == <<Call("GetByID", <<id>>, g.err)>>
    IN
    IF g.err # NoErr THEN [ok |-> FALSE, err |-> g.err, calls |-> calls]
    ELSE IF ~CompareHashAndPassword(g.user.Password, req.OldPassword)
    THEN [ok |-> FALSE, err |-> Errorf("invalid old password"), calls |-> calls]
    ELSE [ok |-> TRUE, err |-> NoErr, calls |-> calls]

\* the second half of ChangePassword calling UpdatePassword once more when
\* the call failed
ChangePasswordWrite_Retries(rows, id, t, salt, req) ==
    LET h == GenerateFromPassword(salt, req.NewPassword)
        u1 == RepoUpdatePassword(rows, id, t, h)
        u2 == RepoUpdatePassword(u1.users, id, t, h)
        c1 == <<Call("UpdatePassword", <<id>>, u1.err)>>
        c2 == c1 \o <<Call("UpdatePassword", <<id>>, u2.err)>>
    IN  IF u1.err = NoErr
        THEN [users |-> u1.users, err |-> NoErr, calls |-> c1]
        ELSE IF u2.err # NoErr
        THEN [users |-> u2.users, err |-> Errorf("internal error"),
              calls |-> c2]
        ELSE [users |-> u2.users, err |-> NoErr, calls |-> c2]

\* ChangePassword, lines 177-192: hash the new password and store it
ChangePasswordWrite(rows, id, t, salt, req) ==
    LET u == RepoUpdatePassword(rows, id, t,
                 GenerateFromPassword(salt, req.NewPassword))
        calls == <<Call("UpdatePassword", <<id>>, u.err)>>
    IN  IF u.err # NoErr
        THEN [users |-> u.users, err |-> Errorf("internal error"),
              calls |-> calls]
        ELSE [users |-> u.users, err |-> NoErr, calls |-> calls]

\* authService.ChangePassword
SvcChangePassword(rows, id, t, salt, req) ==
    LET g == ChangePasswordRead(rows, id, req) IN
    IF ~g.ok THEN [users |-> rows, err |-> g.err, calls |-> g.calls]
    ELSE LET w == ChangePasswordWrite(rows, id, t, salt, req) IN
         [users |-> w.users, err |-> w.err, calls |-> g.calls \o w.calls]

\* authService.Delete
SvcDelete(rows, id) ==
    LET r == RepoDelete(rows, id) IN
    [users |-> r.users, err |-> r.err,
     calls |-> <<Call("Delete", <<id>>, r.err)>>]

\* authService.GetUsers
SvcGetUsers(rows, ord, limit, offset) ==
    LET r == RepoGetUsers(rows, ord, limit, offset)
        calls == <<Call("GetUsers", <<limit, offset>>, r.err)>>
    IN  IF r.err # NoErr
        THEN [users |-> <<>>, isNil |-> TRUE, err |-> r.err, calls |-> calls]
        ELSE [users |-> r.users, isNil |-> r.isNil, err |-> NoErr,
              calls |-> calls]

----------------------------------------------------------------------------
(* handler.AuthMiddleware.  A request carries the cookie "token" (or none) *)
(* and the Authorization header, written as the text before the            *)
(* credentials (pre) and the credentials (a token string), if any.         *)

NoCookie == [present |-> FALSE, value |-> Malformed]
Cookie(tok) == [present |-> TRUE, value |-> tok]

Header(pre, hasCred, cred) == [pre |-> pre, hasCred |-> hasCred, cred |-> cred]
NoHeader == Header("", FALSE, Malformed)
Bearer(tok) == Header("Bearer ", TRUE, tok)

Request(cookie, header) == [cookie |-> cookie, header |-> header]

\* len(authHeader); credentials are at least one character long
HeaderLen(h) == Len(h.pre) + (IF h.hasCred THEN 1 ELSE 0)

\* authHeader[:7] == "Bearer "
HasBearerPrefix(h) == Len(h.pre) >= 7 /\ SubSeq(h.pre, 1, 7) = "Bearer "

\* the whole header taken as the token string
AfterPrefix_KeepsPrefix(h) == Malformed

\* authHeader[7:]
AfterPrefix(h) == IF Len(h.pre) = 7 /\ h.hasCred THEN h.cred ELSE Malformed

\* gin's request context: the keys set with c.Set and their values
EmptyCtx == [keys |-> {}, userID |-> NilUUID, username |-> ""]

Abort(status, body) ==
    [status |-> status, body |-> body, next |-> FALSE, ctx |-> EmptyCtx]

\* the header looked at first, the cookie only without one
ExtractToken_HeaderFirst(req) ==
    IF HeaderLen(req.header) > 7 /\ HasBearerPrefix(req.header)
    THEN [ok |-> TRUE, body |-> "", token |-> AfterPrefix(req.header)]
    ELSE IF req.cookie.present
    THEN [ok |-> TRUE, body |-> "", token |-> req.cookie.value]
    ELSE IF HeaderLen(req.header) = 0
    THEN [ok |-> FALSE, body |-> "authorization required", token |-> Malformed]
    ELSE [ok |-> FALSE, body |-> "invalid auth header", token |-> Malformed]

\* lines 16-31: where the token string comes from
ExtractToken(req) ==
    IF req.cookie.present THEN [ok |-> TRUE, body |-> "", token |-> req.cookie.value]
    ELSE IF HeaderLen(req.header) = 0
    THEN [ok |-> FALSE, body |-> "authorization required", token |-> Malformed]
    ELSE IF HeaderLen(req.header) > 7 /\ HasBearerPrefix(req.header)
    THEN [ok |-> TRUE, body |-> "", token |-> AfterPrefix(req.header)]
    ELSE [ok |-> FALSE, body |-> "invalid auth header", token |-> Malformed]

\* a gate that looks the account of the token up and wants it there under
\* the username the token carries
Middleware_ConsultsStore(req, secret, t) ==
    LET x == ExtractToken(req) IN
    IF ~x.ok THEN Abort(401, x.body)
    ELSE LET p == ParseWithClaims(x.token, secret, t) IN
         IF p.err # "" \/ ~p.valid THEN Abort(401, "invalid token")
         ELSE IF ~\E u \in users : /\ u.ID = p.claims.user_id
                                   /\ u.Username = p.claims.username
         THEN Abort(401, "invalid token")
         ELSE [status |-> 200, body |-> "", next |-> TRUE,
               ctx |-> [keys |-> {"userID", "username"},
                        userID |-> p.claims.user_id,
                        username |-> p.claims.username]]

\* a gate that also turns a token away once its account was written to
\* after the token was issued
Middleware_RevokesOnChange(req, secret, t) ==
    LET x == ExtractToken(req) IN
    IF ~x.ok THEN Abort(401, x.body)
    ELSE LET p == ParseWithClaims(x.token, secret, t) IN
         IF p.err # "" \/ ~p.valid THEN Abort(401, "invalid token")
         ELSE IF \E u \in users : /\ u.ID = p.claims.user_id
                                  /\ u.UpdatedAt > p.claims.iat
         THEN Abort(401, "invalid token")
         ELSE [status |-> 200, body |-> "", next |-> TRUE,
               ctx |-> [keys |-> {"userID", "username"},
                        userID |-> p.claims.user_id,
                        username |-> p.claims.username]]

\* a gate that answers with the reason jwt.ParseWithClaims gave
Middleware_TellsReason(req, secret, t) ==
    LET x == ExtractToken(req) IN
    IF ~x.ok THEN Abort(401, x.body)
    ELSE LET p == ParseWithClaims(x.token, secret, t) IN
         IF p.err # "" \/ ~p.valid THEN Abort(401, p.err)
         ELSE [status |-> 200, body |-> "", next |-> TRUE,
               ctx |-> [keys |-> {"userID", "username"},
                        userID |-> p.claims.user_id,
                        username |-> p.claims.username]]

\* AuthHandler.AuthMiddleware: the response, whether c.Next() ran, and the
\* context the next handler reads
Middleware(req, secret, t) ==
    LET x == ExtractToken(req) IN
    IF ~x.ok THEN Abort(401, x.body)
    ELSE LET p == ParseWithClaims(x.token, secret, t) IN
         IF p.err # "" \/ ~p.valid THEN Abort(401, "invalid token")
         ELSE [status |-> 200, body |-> "", next |-> TRUE,
               ctx |-> [keys |-> {"userID", "username"},
                        userID |-> p.claims.user_id,
                        username |-> p.claims.username]]

----------------------------------------------------------------------------
(* handler.AuthHandler: what the handlers behind the routes set in their   *)
(* responses.                                                              *)

\* c.SetCookie(name, value, maxAge, "/", "", secure, httpOnly)
SetCookie(name, value, maxAge, secure, httpOnly) ==
    [set |-> TRUE, name |-> name, value |-> value, maxAge |-> maxAge,
     secure |-> secure, httpOnly |-> httpOnly]

NoSetCookie ==
    [set |-> FALSE, name |-> "", value |-> Malformed, maxAge |-> 0,
     secure |-> FALSE, httpOnly |-> FALSE]

----------------------------------------------------------------------------
(* model: the response mappings *)

TwoDigits(n) == IF n < 10 THEN "0" \o ToString(n) ELSE ToString(n)

\* t.Local().Format("02.01.2006 15:04:05") for an instant of the first day,
\* the local zone being UTC
FormatDate(t) ==
    "01.01.1970 " \o TwoDigits(t \div SecondsPerHour) \o ":"
        \o TwoDigits((t % SecondsPerHour) \div 60) \o ":" \o TwoDigits(t % 60)

\* model.ToResponse: a model.UserResponse
ToResponse(user) ==
    [id |-> user.ID, username |-> user.Username, email |-> user.Email,
     created_at |-> FormatDate(user.CreatedAt),
     updated_at |-> FormatDate(user.UpdatedAt)]

\* model.ToUsersResponse: one UsersResponse for each account, in their order
ToUsersResponse(list) ==
    [i \in 1..Len(list) |->
        [ID |-> list[i].ID, Username |-> list[i].Username,
         CreatedAt |-> FormatDate(list[i].CreatedAt),
         UpdatedAt |-> FormatDate(list[i].UpdatedAt)]]

\* a response body that carries no account
NoUserResponse ==
    [id |-> NilUUID, username |-> "", email |-> "", created_at |-> "",
     updated_at |-> ""]

----------------------------------------------------------------------------
(* the handlers *)

\* c.JSON(status, ...): body is the text under "error" or "message", user
\* the account the body carries, token the token it carries
Respond(status, body, user, token, cookie) ==
    [status |-> status, body |-> body, user |-> user, token |-> token,
     cookie |-> cookie]

RespondError(status, body) ==
    Respond(status, body, NoUserResponse, Malformed, NoSetCookie)

\* handler.ErrNotFound: the handler package's own errors.New("user not
\* found"), a value other than repository.ErrNotFound
HandlerErrNotFound == Err("handler.ErrNotFound", "user not found", "", "")

\* uuid.UUID.String: the canonical 36-character form
UUIDString(id) ==
    "00000000-0000-0000-0000-00000000000" \o ToString(id)

\* the forms of an id uuid.Parse reads: the canonical form, and the same
\* between braces or after "urn:uuid:"
UUIDForms(id) ==
    {UUIDString(id), "{" \o UUIDString(id) \o "}",
     "urn:uuid:" \o UUIDString(id)}

\* uuid.Parse
ParseUUID(str) ==
    IF \E id \in {NilUUID} \cup IDs : str \in UUIDForms(id)
    THEN [ok |-> TRUE,
          id |-> CHOOSE id \in {NilUUID} \cup IDs : str \in UUIDForms(id)]
    ELSE [ok |-> FALSE, id |-> NilUUID]

\* AuthHandler.GetByID on the path parameter "id"; service is what the
\* handler called of the service
GetByIDHandler(idStr, rows) ==
    LET uid == ParseUUID(idStr) IN
    IF ~uid.ok
    THEN [res |-> RespondError(400, "invalid user id format"),
          service |-> <<>>]
    ELSE LET r == SvcGetByID(rows, uid.id)
             service == <<Call("GetByID", <<uid.id>>, r.err)>>
         IN  IF r.err # NoErr
             THEN IF ErrorsIs(r.err, HandlerErrNotFound)
                  THEN [res |-> RespondError(404, "user not found"),
                        service |-> service]
                  ELSE [res |-> RespondError(500, "internal error"),
                        service |-> service]
             ELSE [res |-> Respond(200, "", ToResponse(r.user), Malformed,
                                   NoSetCookie),
                   service |-> service]

\* the characters of the classes of emailRegex
Alpha ==
    {"a", "b", "c", "d", "e", "f", "g", "h", "i", "j", "k", "l", "m", "n",
     "o", "p", "q", "r", "s", "t", "u", "v", "w", "x", "y", "z",
     "A", "B", "C", "D", "E", "F", "G", "H", "I", "J", "K", "L", "M", "N",
     "O", "P", "Q", "R", "S", "T", "U", "V", "W", "X", "Y", "Z"}
Alnum == Alpha \cup {"0", "1", "2", "3", "4", "5", "6", "7", "8", "9"}
LocalChars == Alnum \cup {".", "_", "%", "+", "-"}
DomainChars == Alnum \cup {".", "-"}

\* emailRegex.MatchString:
\* ^[a-zA-Z0-9._%+\-]+@[a-zA-Z0-9.\-]+\.[a-zA-Z]{2,}$
EmailRegexMatch(str) ==
    \E at \in 2..Len(str), dot \in 2..Len(str) :
        /\ SubSeq(str, at, at) = "@"
        /\ \A k \in 1..(at - 1) : SubSeq(str, k, k) \in LocalChars
        /\ dot > at + 1
        /\ SubSeq(str, dot, dot) = "."
        /\ \A k \in (at + 1)..(dot - 1) : SubSeq(str, k, k) \in DomainChars
        /\ Len(str) - dot >= 2
        /\ \A k \in (dot + 1)..Len(str) : SubSeq(str, k, k) \in Alpha

\* validateEmail, the rule registered as strict_email
StrictEmail(str) ==
    IF Len(str) < 3 \/ Len(str) > 254 THEN FALSE ELSE EmailRegexMatch(str)

\* Validator.ValidateStruct on a model.LoginRequest:
\* Email required,strict_email; Password required
ValidateLoginRequest(req) ==
    /\ req.Email # ""
    /\ StrictEmail(req.Email)
    /\ req.Password # ""

\* a SignInHandler that sets the cookie whatever Login returned
SignInRespond_CookieAlways(login, c) ==
    IF login.err # NoErr
    THEN Respond(401, "invalid email or password", NoUserResponse, Malformed,
                 SetCookie("token", login.token,
                           c.ExpirationHours * 3600, c.Mode = "release", TRUE))
    ELSE Respond(200, "", NoUserResponse, login.token,
                 SetCookie("token", login.token,
                           c.ExpirationHours * 3600, c.Mode = "release", TRUE))

\* AuthHandler.SignInHandler once Login has returned
SignInRespond(login, c) ==
    IF login.err # NoErr
    THEN RespondError(401, "invalid email or password")
    ELSE Respond(200, "", NoUserResponse, login.token,
                 SetCookie("token", login.token,
                           c.ExpirationHours * 3600, c.Mode = "release", TRUE))

\* what the handler holds when it has not called Login
NoLogin == [token |-> Malformed, err |-> NoErr, calls |-> <<>>]

\* AuthHandler.SignInHandler on a request body: json says whether the body
\* binds as JSON; service is what the handler called of the service
SignInHandler(body, rows, c, t1, t2) ==
    IF ~body.json
    THEN [res |-> RespondError(400, "invalid request body"),
          service |-> <<>>, login |-> NoLogin]
    ELSE LET req == [Email |-> body.Email, Password |-> body.Password] IN
         IF ~ValidateLoginRequest(req)
         THEN [res |-> RespondError(400, "validation failed"),
               service |-> <<>>, login |-> NoLogin]
         ELSE LET r == SvcLogin(rows, c, t1, t2, req) IN
              [res |-> SignInRespond(r, c),
               service |-> <<Call("Login", <<req.Email>>, r.err)>>,
               login |-> r]

\* AuthHandler.GetProfile, run on the context the gate left
GetProfileHandler(ctx, rows) ==
    IF "userID" \notin ctx.keys THEN RespondError(401, "unauthorized")
    ELSE LET r == SvcGetByID(rows, ctx.userID) IN
         IF r.err # NoErr THEN RespondError(404, "user not found")
         ELSE Respond(200, "", ToResponse(r.user), Malformed, NoSetCookie)

\* AuthHandler.LogoutHandler: the cookie is sent back empty and expired;
\* nothing of the server is read or written
LogoutHandler ==
    [status |-> 200, body |-> "successfully logged out",
     cookie |-> SetCookie("token", Malformed, -1, FALSE, TRUE)]

----------------------------------------------------------------------------
(* func run and the http.Server it starts.  pc is where run stands:        *)
(* "start" before the goroutine of ListenAndServe is started, "spawned"    *)
(* before signal.Notify, "waiting" at <-quit, "shutting" inside            *)
(* server.Shutdown, "returned"; or the process is gone: "killed" by a      *)
(* signal nothing was registered for, "fatal" by logger.Fatal.  bound says *)
(* whether ListenAndServe holds the listener, quit is the signal in the    *)
(* channel ("" for none), active the requests being handled, elapsed the   *)
(* seconds since ctxShutdown was made, ret what run returned.              *)

ShutdownTimeout == 5

Signals == {"SIGINT", "SIGTERM"}

NotStarted ==
    [pc |-> "start", bound |-> FALSE, quit |-> "", active |-> 0,
     elapsed |-> 0, ret |-> ""]

\* fmt.Errorf("server forced to shutdown: %w", ctx.Err())
ForcedShutdown ==
    Wrap("server forced to shutdown",
         Err("context.DeadlineExceeded", "context deadline exceeded", "", ""))

----------------------------------------------------------------------------
(* The state machine *)

Configs == [Secret : {"k1"}, ExpirationHours : 1..MaxHours]

\* the clients whose calls are followed step by step
Procs == 1..NumProcs

\* the frame of a client with no call in flight
Idle == [op |-> "idle", pc |-> "done"]

Init ==
    /\ users = {}
    /\ nextID = 1
    /\ now = 0
    /\ cfg \in Configs
    /\ issued = {}
    /\ last = [op |-> "start"]
    /\ store = "up"
    /\ procs = [p \in Procs |-> Idle]
    /\ server = NotStarted

\* time passes
Tick ==
    /\ \E t \in Instants : t > now /\ now' = t
    /\ last' = [op |-> "Tick"]
    /\ UNCHANGED <<users, nextID, cfg, issued, store, procs, server>>

Register(req, salt) ==
    /\ nextID <= MaxUsers
    /\ LET r == SvcRegister(users, nextID, now, salt, req) IN
       /\ users' = r.users
       /\ nextID' = IF r.err = NoErr THEN nextID + 1 ELSE nextID
       /\ last' = [op |-> "Register", req |-> req, id |-> r.id, err |-> r.err,
                   calls |-> r.calls]
    /\ UNCHANGED <<now, cfg, issued, store, procs, server>>

\* Login; the clock may move on between the two readings it takes, and
\* the client keeps the token (keep) or only looks at it
Login(req, t2, keep) ==
    /\ t2 >= now /\ t2 <= now + 1
    /\ LET r == SvcLogin(users, cfg, now, t2, req) IN
       /\ issued' = IF keep /\ r.err = NoErr /\ Cardinality(issued) < MaxTokens
                    THEN issued \cup {r.token} ELSE issued
       /\ last' = [op |-> "Login", req |-> req, at |-> now, token |-> r.token,
                   err |-> r.err, calls |-> r.calls]
    /\ now' = t2
    /\ UNCHANGED <<users, nextID, cfg, store, procs, server>>

GetByID(id) ==
    /\ LET r == SvcGetByID(users, id) IN
       last' = [op |-> "GetByID", id |-> id, user |-> r.user, err |-> r.err,
                calls |-> r.calls]
    /\ UNCHANGED <<users, nextID, now, cfg, issued, store, procs, server>>

ChangeProfile(id, username) ==
    /\ LET r == SvcChangeProfile(users, id, now, username) IN
       /\ users' = r.users
       /\ last' = [op |-> "ChangeProfile", id |-> id, username |-> username,
                   err |-> r.err, calls |-> r.calls]
    /\ UNCHANGED <<nextID, now, cfg, issued, store, procs, server>>

ChangeEmail(id, email) ==
    /\ LET r == SvcChangeEmail(users, id, now, email) IN
       /\ users' = r.users
       /\ last' = [op |-> "ChangeEmail", id |-> id, email |-> email,
                   err |-> r.err, calls |-> r.calls]
    /\ UNCHANGED <<nextID, now, cfg, issued, store, procs, server>>

ChangePassword(id, req, salt) ==
    /\ LET r == SvcChangePassword(users, id, now, salt, req) IN
       /\ users' = r.users
       /\ last' = [op |-> "ChangePassword", id |-> id, req |-> req,
                   err |-> r.err, calls |-> r.calls]
    /\ UNCHANGED <<nextID, now, cfg, issued, store, procs, server>>

Delete(id) ==
    /\ LET r == SvcDelete(users, id) IN
       /\ users' = r.users
       /\ last' = [op |-> "Delete", id |-> id, err |-> r.err,
                   calls |-> r.calls]
    /\ UNCHANGED <<nextID, now, cfg, issued, store, procs, server>>

GetByEmail(email) ==
    /\ LET r == SvcGetByEmail(users, email) IN
       last' = [op |-> "GetByEmail", email |-> email, user |-> r.user,
                err |-> r.err, calls |-> r.calls]
    /\ UNCHANGED <<users, nextID, now, cfg, issued, store, procs, server>>

\* GetUsers; the store delivers the rows in one of the orders its ORDER BY
\* allows
GetUsers(limit, offset) ==
    /\ \E ord \in NewestFirst(users) :
           LET r == SvcGetUsers(users, ord, limit, offset) IN
           last' = [op |-> "GetUsers", limit |-> limit, offset |-> offset,
                    users |-> r.users, isNil |-> r.isNil, err |-> r.err,
                    calls |-> r.calls]
    /\ UNCHANGED <<users, nextID, now, cfg, issued, store, procs, server>>

\* POST /auth/logout
Logout ==
    /\ last' = [op |-> "Logout", res |-> LogoutHandler]
    /\ UNCHANGED <<users, nextID, now, cfg, issued, store, procs, server>>

\* POST /auth/signin; the clock may move on between the two readings Login
\* takes
SignIn(body, t2) ==
    /\ t2 >= now /\ t2 <= now + 1
    /\ LET h == SignInHandler(body, users, cfg, now, t2) IN
       /\ last' = [op |-> "SignIn", body |-> body, at |-> now, res |-> h.res,
                   service |-> h.service, login |-> h.login]
       /\ now' = IF h.service = <<>> THEN now ELSE t2
    /\ UNCHANGED <<users, nextID, cfg, issued, store, procs, server>>

\* GET /users/:id
GetUser(idStr) ==
    /\ LET h == GetByIDHandler(idStr, users) IN
       last' = [op |-> "GetUser", param |-> idStr, res |-> h.res,
                service |-> h.service, wasUp |-> store = "up"]
    /\ UNCHANGED <<users, nextID, now, cfg, issued, store, procs, server>>

\* GET /user/profile: the gate, and GetProfile when the gate lets through
GetProfile(req) ==
    /\ LET g == Middleware(req, cfg.Secret, now) IN
       last' = [op |-> "GetProfile", req |-> req, at |-> now, gate |-> g,
                res |-> IF g.next THEN GetProfileHandler(g.ctx, users)
                        ELSE RespondError(g.status, g.body)]
    /\ UNCHANGED <<users, nextID, now, cfg, issued, store, procs, server>>

AuthMiddleware(req) ==
    /\ last' = [op |-> "AuthMiddleware", req |-> req, at |-> now,
                res |-> Middleware(req, cfg.Secret, now)]
    /\ UNCHANGED <<users, nextID, now, cfg, issued, store, procs, server>>

CreateUserRequests == [Username : Usernames, Email : Emails, Password : Passwords]
LoginRequests == [Email : Emails, Password : Passwords]
ChangePasswordRequests == [OldPassword : Passwords, NewPassword : Passwords]

\* requests of clients that present what Login gave them
ClientRequests ==
    {Request(c, h) : c \in {NoCookie} \cup {Cookie(t) : t \in issued},
                     h \in {NoHeader} \cup {Bearer(t) : t \in issued}}

\* the account service in use
Next ==
    \/ Tick
    \/ \E req \in CreateUserRequests, salt \in Salts : Register(req, salt)
    \/ \E req \in LoginRequests, t2 \in Instants : Login(req, t2, FALSE)
    \/ \E id \in IDs : GetByID(id)
    \/ \E e \in Emails : GetByEmail(e)
    \/ \E id \in IDs, u \in Usernames : ChangeProfile(id, u)
    \/ \E id \in IDs, e \in Emails : ChangeEmail(id, e)
    \/ \E id \in IDs, req \in ChangePasswordRequests, salt \in Salts :
           ChangePassword(id, req, salt)
    \/ \E id \in IDs : Delete(id)

Spec == Init /\ [][Next]_vars

\* sessions: clients sign in, keep the token and present it to the routes
\* behind AuthMiddleware while accounts are renamed and deleted
NextSession ==
    \/ Tick
    \/ \E req \in [Username : Usernames, Email : Emails, Password : {"pw1"}],
          salt \in Salts : Register(req, salt)
    \/ \E req \in [Email : Emails, Password : {"pw1"}], t2 \in Instants :
           Login(req, t2, TRUE)
    \/ \E id \in IDs, u \in Usernames : ChangeProfile(id, u)
    \/ \E id \in IDs : Delete(id)
    \/ \E req \in ClientRequests : AuthMiddleware(req)

SpecSession == Init /\ [][NextSession]_vars

\* stale sessions: accounts are renamed and deleted while clients go on
\* asking for their profile with the token they hold
NextStale ==
    \/ Tick
    \/ \E req \in [Username : Usernames, Email : {"e1"}, Password : {"pw1"}],
          salt \in Salts : Register(req, salt)
    \/ \E req \in [Email : {"e1"}, Password : {"pw1"}], t2 \in Instants :
           Login(req, t2, TRUE)
    \/ \E id \in IDs, u \in Usernames : ChangeProfile(id, u)
    \/ \E id \in IDs : Delete(id)
    \/ \E req \in ClientRequests : GetProfile(req)

SpecStale == Init /\ [][NextStale]_vars

\* run up to go func(): config.Load, cfg.Validate, logger.New and
\* db.Connect succeed, or run returns the error of the one that failed
RunStarts(ok) ==
    /\ server.pc = "start"
    /\ server' = IF ok THEN [server EXCEPT !.pc = "spawned"]
                 ELSE [server EXCEPT !.pc = "returned", !.ret = "startup error"]
    /\ UNCHANGED <<users, nextID, now, cfg, issued, last, store, procs>>

\* signal.Notify(quit, SIGINT, SIGTERM); run then blocks at <-quit
NotifySignals ==
    /\ server.pc = "spawned"
    /\ server' = [server EXCEPT !.pc = "waiting"]
    /\ UNCHANGED <<users, nextID, now, cfg, issued, last, store, procs>>

\* the goroutine: ListenAndServe binds the address, or fails and
\* logger.Fatal ends the process
Listens(ok) ==
    /\ server.pc \in {"spawned", "waiting"}
    /\ ~server.bound
    /\ server' = IF ok THEN [server EXCEPT !.bound = TRUE]
                 ELSE [server EXCEPT !.pc = "fatal"]
    /\ UNCHANGED <<users, nextID, now, cfg, issued, last, store, procs>>

\* the server accepts a request, and a handler returns
Accepts ==
    /\ server.pc \in {"spawned", "waiting"}
    /\ server.bound
    /\ server.active < MaxConns
    /\ server' = [server EXCEPT !.active = @ + 1]
    /\ UNCHANGED <<users, nextID, now, cfg, issued, last, store, procs>>

Responds ==
    /\ server.pc \in {"spawned", "waiting", "shutting"}
    /\ server.active > 0
    /\ server' = [server EXCEPT !.active = @ - 1]
    /\ UNCHANGED <<users, nextID, now, cfg, issued, last, store, procs>>

\* the process is sent SIGINT or SIGTERM: before signal.Notify the signal
\* ends the process, after it the signal goes into quit, which holds one
Signalled(sig) ==
    /\ \/ /\ server.pc \in {"start", "spawned"}
          /\ server' = [server EXCEPT !.pc = "killed"]
       \/ /\ server.pc \in {"waiting", "shutting"}
          /\ server.quit = ""
          /\ server' = [server EXCEPT !.quit = sig]
    /\ UNCHANGED <<users, nextID, now, cfg, issued, last, store, procs>>

\* a run that takes the signal from quit and goes on waiting
ReceivesQuit_Drops ==
    /\ server.pc = "waiting"
    /\ server.quit # ""
    /\ server' = [server EXCEPT !.quit = ""]
    /\ UNCHANGED <<users, nextID, now, cfg, issued, last, store, procs>>

\* <-quit returns; context.WithTimeout(5s); server.Shutdown closes the
\* listener and begins to wait for the requests being handled
ReceivesQuit ==
    /\ server.pc = "waiting"
    /\ server.quit # ""
    /\ server' = [server EXCEPT !.pc = "shutting", !.quit = "",
                                !.elapsed = 0]
    /\ UNCHANGED <<users, nextID, now, cfg, issued, last, store, procs>>

\* a second of the shutdown deadline passes
ShutdownTimer ==
    /\ server.pc = "shutting"
    /\ server.elapsed < ShutdownTimeout
    /\ server' = [server EXCEPT !.elapsed = @ + 1]
    /\ UNCHANGED <<users, nextID, now, cfg, issued, last, store, procs>>

\* Shutdown finds no request being handled and returns nil; run returns nil
ShutdownCompletes ==
    /\ server.pc = "shutting"
    /\ server.active = 0
    /\ server' = [server EXCEPT !.pc = "returned", !.ret = "nil"]
    /\ UNCHANGED <<users, nextID, now, cfg, issued, last, store, procs>>

\* ctxShutdown is done: Shutdown returns its error and run wraps it
ShutdownExpires ==
    /\ server.pc = "shutting"
    /\ server.elapsed = ShutdownTimeout
    /\ server' = [server EXCEPT !.pc = "returned",
                                !.ret = ForcedShutdown.msg]
    /\ UNCHANGED <<users, nextID, now, cfg, issued, last, store, procs>>

\* the process from its start to its end
NextRun ==
    \/ \E ok \in BOOLEAN : RunStarts(ok)
    \/ NotifySignals
    \/ \E ok \in BOOLEAN : Listens(ok)
    \/ Accepts
    \/ Responds
    \/ \E sig \in Signals : Signalled(sig)
    \/ ReceivesQuit
    \/ ShutdownTimer
    \/ ShutdownCompletes
    \/ ShutdownExpires

SpecRun == Init /\ [][NextRun]_vars

\* the goroutine of run is scheduled when it can go on, and the timer of
\* ctxShutdown runs; nothing makes a handler return
SpecRunLive ==
    /\ SpecRun
    /\ WF_vars(ReceivesQuit)
    /\ WF_vars(ShutdownTimer)
    /\ WF_vars(ShutdownExpires)

\* sessions that are ended: clients sign in with the first password, log
\* out, change their password, and go on presenting the token they hold
NextRevoke ==
    \/ Tick
    \/ \E req \in [Username : {"u1"}, Email : Emails, Password : {"pw1"}],
          salt \in Salts : Register(req, salt)
    \/ \E req \in [Email : Emails, Password : {"pw1"}], t2 \in Instants :
           Login(req, t2, TRUE)
    \/ Logout
    \/ \E id \in IDs, req \in ChangePasswordRequests, salt \in Salts :
           ChangePassword(id, req, salt)
    \/ \E req \in ClientRequests : AuthMiddleware(req)

SpecRevoke == Init /\ [][NextRevoke]_vars

\* a call of a service method by client p begins: nothing has reached the
\* repository yet.  with holds the clients whose calls are in flight at this
\* moment; a call that has returned stops counting as concurrent with p
Invoke(p, op, id, req) ==
    /\ procs[p].pc = "done"
    /\ procs' = [q \in Procs |->
                   IF q = p
                   THEN [op |-> op, id |-> id, req |-> req, pc |-> "called",
                         calls |-> <<>>, err |-> NoErr, out |-> NilUUID,
                         with |-> {o \in Procs \ {p} : procs[o].pc # "done"}]
                   ELSE IF procs[q].op # "idle" /\ procs[q].pc = "done"
                   THEN [procs[q] EXCEPT !.with = @ \ {p}]
                   ELSE procs[q]]
    /\ UNCHANGED <<users, nextID, now, cfg, issued, last, store, server>>

\* what the method in frame f does from where it stands up to its next call
\* of the repository (that call included) or to its return: the rows it
\* leaves, the calls it made, and where it stands then
Run(f, salt, ord) ==
    CASE f.op = "Register" ->
           LET r == SvcRegister(users, nextID, now, salt, f.req) IN
           [users |-> r.users, err |-> r.err, out |-> r.id, calls |-> r.calls,
            pc |-> "done"]
      [] f.op = "Login" ->
           LET r == SvcLogin(users, cfg, now, now, f.req) IN
           [users |-> users, err |-> r.err, out |-> r.token, calls |-> r.calls,
            pc |-> "done"]
      [] f.op = "GetByID" ->
           LET r == SvcGetByID(users, f.id) IN
           [users |-> users, err |-> r.err, out |-> r.user, calls |-> r.calls,
            pc |-> "done"]
      [] f.op = "GetByEmail" ->
           LET r == SvcGetByEmail(users, f.req.Email) IN
           [users |-> users, err |-> r.err, out |-> r.user, calls |-> r.calls,
            pc |-> "done"]
      [] f.op = "ChangeProfile" ->
           LET r == SvcChangeProfile(users, f.id, now, f.req.NewUsername) IN
           [users |-> r.users, err |-> r.err, out |-> NilUUID,
            calls |-> r.calls, pc |-> "done"]
      [] f.op = "ChangeEmail" ->
           LET r == SvcChangeEmail(users, f.id, now, f.req.NewEmail) IN
           [users |-> r.users, err |-> r.err, out |-> NilUUID,
            calls |-> r.calls, pc |-> "done"]
      [] f.op = "ChangePassword" /\ f.pc = "called" ->
           LET g == ChangePasswordRead(users, f.id, f.req) IN
           [users |-> users, err |-> g.err, out |-> NilUUID, calls |-> g.calls,
            pc |-> IF g.ok THEN "read" ELSE "done"]
      [] f.op = "ChangePassword" /\ f.pc = "read" ->
           LET w == ChangePasswordWrite(users, f.id, now, salt, f.req) IN
           [users |-> w.users, err |-> w.err, out |-> NilUUID,
            calls |-> w.calls, pc |-> "done"]
      [] f.op = "Delete" ->
           LET r == SvcDelete(users, f.id) IN
           [users |-> r.users, err |-> r.err, out |-> NilUUID,
            calls |-> r.calls, pc |-> "done"]
      [] f.op = "GetUsers" ->
           LET r == SvcGetUsers(users, ord, f.req.limit, f.req.offset) IN
           [users |-> users, err |-> r.err, out |-> r.users, calls |-> r.calls,
            pc |-> "done"]

\* the call of client p goes on by one call of the repository: the statement
\* runs against the table as it is now
Step(p) ==
    /\ procs[p].pc # "done"
    /\ procs[p].op = "Register" => nextID <= MaxUsers
    /\ \E salt \in Salts, ord \in NewestFirst(users) :
           LET r == Run(procs[p], salt, ord) IN
           /\ users' = r.users
           /\ nextID' = IF procs[p].op = "Register" /\ r.err = NoErr
                         THEN nextID + 1 ELSE nextID
           /\ procs' = [procs EXCEPT ![p].pc = r.pc, ![p].err = r.err,
                                      ![p].out = r.out,
                                      ![p].calls = @ \o r.calls]
    /\ UNCHANGED <<now, cfg, issued, last, store, server>>

\* the database stops answering, and answers again
StoreFails ==
    /\ store = "up"
    /\ store' = "down"
    /\ UNCHANGED <<users, nextID, now, cfg, issued, last, procs, server>>

StoreRecovers ==
    /\ store = "down"
    /\ store' = "up"
    /\ UNCHANGED <<users, nextID, now, cfg, issued, last, procs, server>>

\* one client calls every method of the service while the database comes
\* and goes
NextFault ==
    \/ StoreFails
    \/ StoreRecovers
    \/ Step(1)
    \/ \E req \in [Username : Usernames, Email : Emails, Password : {"pw1"}] :
           Invoke(1, "Register", NilUUID, req)
    \/ \E req \in LoginRequests : Invoke(1, "Login", NilUUID, req)
    \/ \E id \in IDs : Invoke(1, "GetByID", id, [Email |-> ""])
    \/ \E e \in Emails : Invoke(1, "GetByEmail", NilUUID, [Email |-> e])
    \/ \E id \in IDs, u \in Usernames :
           Invoke(1, "ChangeProfile", id, [NewUsername |-> u])
    \/ \E id \in IDs, e \in Emails :
           Invoke(1, "ChangeEmail", id, [NewEmail |-> e])
    \/ \E id \in IDs, req \in ChangePasswordRequests :
           Invoke(1, "ChangePassword", id, req)
    \/ \E id \in IDs : Invoke(1, "Delete", id, [Email |-> ""])
    \/ \E limit \in {1, 10}, offset \in {0, 1} :
           Invoke(1, "GetUsers", NilUUID, [limit |-> limit, offset |-> offset])

SpecFault == Init /\ [][NextFault]_vars

\* the routes that read an account by the id in their path, while accounts
\* come and go and the database comes and goes
PathParams ==
    UNION {UUIDForms(id) : id \in IDs} \cup {"", "invalid-uuid", "1"}

NextRoutes ==
    \/ StoreFails
    \/ StoreRecovers
    \/ \E req \in [Username : Usernames, Email : Emails, Password : {"pw1"}],
          salt \in Salts : Register(req, salt)
    \/ \E id \in IDs : Delete(id)
    \/ \E idStr \in PathParams : GetUser(idStr)

SpecRoutes == Init /\ [][NextRoutes]_vars

\* signing in over HTTP: the service is configured with an App.Mode, accounts
\* come and go, the database comes and goes, and clients post bodies that
\* bind or not, with addresses and passwords that validate or not
Modes == {"release", "debug"}
AppConfigs ==
    [Secret : {"k1"}, ExpirationHours : 1..MaxHours, Mode : Modes]

Addresses == {"a@b.io", "e1", ""}

SignInBodies ==
    [json : {TRUE}, Email : Addresses, Password : Passwords \cup {""}]
        \cup [json : {FALSE}, Email : {""}, Password : {""}]

InitSignIn ==
    /\ users = {}
    /\ nextID = 1
    /\ now = 0
    /\ cfg \in AppConfigs
    /\ issued = {}
    /\ last = [op |-> "start"]
    /\ store = "up"
    /\ procs = [p \in Procs |-> Idle]
    /\ server = NotStarted

NextSignIn ==
    \/ StoreFails
    \/ StoreRecovers
    \/ Tick
    \/ \E req \in [Username : Usernames, Email : {"a@b.io"},
                    Password : Passwords],
          salt \in Salts : Register(req, salt)
    \/ \E id \in IDs : Delete(id)
    \/ \E body \in SignInBodies, t2 \in Instants : SignIn(body, t2)

SpecSignIn == InitSignIn /\ [][NextSignIn]_vars

\* concurrent requests: all clients but the last sign up, the last one
\* renames, re-addresses and deletes accounts; the statements of their calls
\* interleave in every order
Registrants == Procs \ {NumProcs}

NextConc ==
    \/ \E p \in Procs : Step(p)
    \/ \E p \in Registrants,
          req \in [Username : Usernames, Email : Emails, Password : {"pw1"}] :
           Invoke(p, "Register", NilUUID, req)
    \/ \E id \in IDs, u \in Usernames :
           Invoke(NumProcs, "ChangeProfile", id, [NewUsername |-> u])
    \/ \E id \in IDs, e \in Emails :
           Invoke(NumProcs, "ChangeEmail", id, [NewEmail |-> e])
    \/ \E id \in IDs : Invoke(NumProcs, "Delete", id, [Email |-> ""])

SpecConc == Init /\ [][NextConc]_vars

\* races on one account: all clients but the last change passwords, the
\* last one signs the account up and deletes it; between the two repository
\* calls of a ChangePassword the statements of the other calls may run
Changers == Procs \ {NumProcs}

NextRace ==
    \/ \E p \in Procs : Step(p)
    \/ \E p \in Changers, id \in IDs, req \in ChangePasswordRequests :
           Invoke(p, "ChangePassword", id, req)
    \/ Invoke(NumProcs, "Register", NilUUID,
              [Username |-> "u1", Email |-> "e1", Password |-> "pw1"])
    \/ \E id \in IDs : Invoke(NumProcs, "Delete", id, [Email |-> ""])

SpecRace == Init /\ [][NextRace]_vars

\* listing: accounts come and go while clients page through them
Limits == {-1, 0, 1, 2, 10}
Offsets == {-1, 0, 1, 2, 100}

NextList ==
    \/ Tick
    \/ \E req \in [Username : Usernames, Email : Emails, Password : {"pw1"}],
          salt \in Salts : Register(req, salt)
    \/ \E id \in IDs : Delete(id)
    \/ \E limit \in Limits, offset \in Offsets : GetUsers(limit, offset)

SpecList == Init /\ [][NextList]_vars

\* the gate alone, on one request drawn from every combination of cookie and
\* header over tokens of every algorithm, key and expiry, at every instant
Secrets == {"k1", "k2"}
GateAlgs == {"HS256", "HS512", "RS256", "none", "XX"}
GateClaims ==
    {Claims(1, "u1", "auth-service", 0, exp) : exp \in Instants \cup {NoDate}}
GateTokens ==
    {Malformed}
    \cup {SignedString(alg, c, key) :
              alg \in GateAlgs, c \in GateClaims, key \in Secrets}
    \cup {Token(3, "HS256", [c EXCEPT !.user_id = 2],
                Signature("HS256", "k1", c)) : c \in GateClaims}
GateHeaders ==
    {Header(pre, FALSE, Malformed) :
         pre \in {"", "Bearer ", "bearer ", "Basic ", "BadHeader"}}
    \cup {Bearer(t) : t \in GateTokens}
    \cup {Header(pre, TRUE, SignedString("HS256", Claims(1, "u1", "", NoDate, NoDate), "k1")) :
              pre \in {"", "bearer ", "Basic ", "Bearer"}}
GateRequests ==
    {Request(c, h) : c \in {NoCookie} \cup {Cookie(t) : t \in GateTokens},
                     h \in GateHeaders}

InitGate ==
    /\ users = {}
    /\ nextID = 1
    /\ now \in Instants
    /\ cfg \in Configs
    /\ issued = {}
    /\ last \in {[op |-> "request", req |-> r] : r \in GateRequests}
    /\ store = "up"
    /\ procs = [p \in Procs |-> Idle]
    /\ server = NotStarted

NextGate == last.op = "request" /\ AuthMiddleware(last.req)

SpecGate == InitGate /\ [][NextGate]_vars

----------------------------------------------------------------------------
(* Properties *)

\* what a failed Login hands back in place of a token: the empty string
NoToken == Malformed

HasEmail(rows, email) == \E u \in rows : u.Email = email
HasUsername(rows, username) == \E u \in rows : u.Username = username

\* C1: a Login for an email no account has and a Login for an email some
\* account has with a password that does not verify against its hash return
\* the same thing: no token, and an error of the same kind and the same
\* message, "invalid credentials".
C1_LoginFailuresAlike ==
    (/\ last.op = "Login"
     /\ \/ ~HasEmail(users, last.req.Email)
        \/ \E u \in users :
               /\ u.Email = last.req.Email
               /\ ~CompareHashAndPassword(u.Password, last.req.Password))
    => /\ last.token = NoToken
       /\ last.err = Errorf("invalid credentials")

\* C1 witness: a Login with the wrong password for an existing account ran
C1_Witness ==
    /\ last.op = "Login"
    /\ \E u \in users :
           /\ u.Email = last.req.Email
           /\ ~CompareHashAndPassword(u.Password, last.req.Password)
    /\ last.err.msg = "invalid credentials"

\* C2: Register with a username some account holds returns
\* ErrDuplicateUsername, Register with an email some account holds returns
\* ErrDuplicateEmail, and in both cases the rows are left as they were.
C2_RegisterDuplicate ==
    [][(last'.op = "Register") =>
          /\ HasUsername(users, last'.req.Username)
                 => last'.err = ErrDuplicateUsername /\ users' = users
          /\ (HasEmail(users, last'.req.Email)
                 /\ ~HasUsername(users, last'.req.Username))
                 => last'.err = ErrDuplicateEmail /\ users' = users]_vars

\* C3: after a successful Register, GetByID of the id it returned finds an
\* account with the username and email registered; and no row ever holds,
\* as its credential, a plaintext password.
C3_RegisterThenGetByID ==
    /\ (last.op = "Register" /\ last.err = NoErr)
           => LET g == SvcGetByID(users, last.id) IN
              /\ g.err = NoErr
              /\ g.user.ID = last.id
              /\ g.user.Username = last.req.Username
              /\ g.user.Email = last.req.Email
    /\ \A u \in users : u.Password \notin Passwords

\* C3 witness: a Register succeeded and its row is in the table
C3_Witness ==
    /\ last.op = "Register"
    /\ last.err = NoErr
    /\ last.id \in UserIDs(users)

\* the account a Login with a matching password is for
LoginAccounts ==
    {u \in users : /\ u.Email = last.req.Email
                   /\ CompareHashAndPassword(u.Password, last.req.Password)}

\* what C4 says of every part of the token but its two dates
LoginTokenIdentifies(u) ==
    /\ last.err = NoErr
    /\ last.token.segments = 3
    /\ last.token.alg = "HS256"
    /\ VerifySignature(last.token, cfg.Secret)
    /\ last.token.claims.user_id = u.ID
    /\ last.token.claims.username = u.Username
    /\ last.token.claims.iss = "auth-service"

\* C4 as claimed: Login with an account's email and matching password
\* succeeds with a token carrying the account's id and username, issuer
\* auth-service, issued-at the time of the login and expiry = issued-at +
\* ExpirationHours.
C4_LoginTokenAsClaimed ==
    last.op = "Login" =>
        \A u \in LoginAccounts :
            /\ LoginTokenIdentifies(u)
            /\ last.token.claims.iat = last.at
            /\ last.token.claims.exp =
                   last.token.claims.iat + cfg.ExpirationHours * SecondsPerHour

\* C4 amended: ... expiry = the clock as Login read it first +
\* ExpirationHours, and issued-at = the clock as Login read it a second time,
\* which is not before the first reading.
C4_LoginToken ==
    last.op = "Login" =>
        \A u \in LoginAccounts :
            /\ LoginTokenIdentifies(u)
            /\ last.token.claims.exp =
                   last.at + cfg.ExpirationHours * SecondsPerHour
            /\ last.token.claims.iat = now
            /\ last.at <= last.token.claims.iat

\* C4 witness: a Login succeeded while the clock moved between its readings
C4_Witness ==
    /\ last.op = "Login"
    /\ last.err = NoErr
    /\ LoginAccounts # {}
    /\ last.token.claims.iat > last.at

\* the token a request carries to the gate: 'Bearer ' and at least one
\* character in the header, or the cookie
BearerForm(h) == h.pre = "Bearer " /\ h.hasCred
Carries(req) == req.cookie.present \/ BearerForm(req.header)
Presented(req) ==
    IF req.cookie.present THEN req.cookie.value ELSE req.header.cred

Accepted(res, claims) ==
    /\ res.status = 200
    /\ res.next
    /\ res.ctx.keys = {"userID", "username"}
    /\ res.ctx.userID = claims.user_id
    /\ res.ctx.username = claims.username

Rejected(res) ==
    /\ res.status = 401
    /\ ~res.next
    /\ res.ctx = EmptyCtx

\* C5: a token Login returned, presented to the gate (same secret), is let
\* through at every time before its expiry, with the user id and username of
\* the account at login in the context, and is turned away at every time
\* after its expiry.
C5_IssuedTokenUntilExpiry ==
    /\ (last.op = "AuthMiddleware" /\ Carries(last.req)
            /\ Presented(last.req) \in issued)
           => LET tok == Presented(last.req) IN
              /\ last.at < tok.claims.exp => Accepted(last.res, tok.claims)
              /\ last.at > tok.claims.exp => Rejected(last.res)
    /\ (last.op = "Login" /\ last.err = NoErr)
           => \E u \in users :
                  /\ u.Email = last.req.Email
                  /\ last.token.claims.user_id = u.ID
                  /\ last.token.claims.username = u.Username

\* C5 witness: a token Login returned was turned away after its expiry
C5_Witness ==
    /\ last.op = "AuthMiddleware"
    /\ Carries(last.req)
    /\ Presented(last.req) \in issued
    /\ last.at > Presented(last.req).claims.exp
    /\ Rejected(last.res)

C7_DeleteOnce ==
    [][/\ (last'.op = "Delete") =>
              IF last'.id \in UserIDs(users)
              THEN /\ last'.err = NoErr
                   /\ users' = {r \in users : r.ID # last'.id}
              ELSE /\ last'.err = ErrNotFound
                   /\ users' = users
       /\ \A id \in IDs :
              (id < nextID /\ id \notin UserIDs(users))
                  => id \notin UserIDs(users')
       /\ (last'.op = "GetByID" /\ last'.id \notin UserIDs(users))
              => last'.err # NoErr]_vars

\* C7 witness: a Delete of an id that had been deleted returned ErrNotFound
C7_Witness ==
    /\ last.op = "Delete"
    /\ last.id < nextID
    /\ last.err = ErrNotFound

\* C8: the gate answers 401, does not run the next handler and sets nothing
\* in the context when (a) there is no cookie and no Authorization header,
\* (b) there is no cookie and the header is not 'Bearer ' and at least one
\* character, (c) the token's signature does not verify under the secret,
\* (d) its signing method is not an HMAC one, or (e) its expiry has passed.
C8_GateFailsClosed ==
    last.op = "AuthMiddleware" =>
        LET req == last.req
            tok == Presented(req)
        IN  (\/ ~req.cookie.present /\ req.header = NoHeader
             \/ ~req.cookie.present /\ ~BearerForm(req.header)
             \/ ~VerifySignature(tok, cfg.Secret)
             \/ tok.alg \notin HMACAlgs
             \/ tok.claims.exp # NoDate /\ last.at > tok.claims.exp)
            => Rejected(last.res)

\* C8 witness: a well-formed HS256 token signed with another secret, not
\* expired, came in the header and was turned away
C8_Witness ==
    /\ last.op = "AuthMiddleware"
    /\ ~last.req.cookie.present
    /\ BearerForm(last.req.header)
    /\ last.req.header.cred.alg = "HS256"
    /\ last.req.header.cred.sig.key # cfg.Secret
    /\ last.req.header.cred.sig.claims = last.req.header.cred.claims
    /\ last.at < last.req.header.cred.claims.exp
    /\ Rejected(last.res)

\* C9: a token signed with the configured secret by an HMAC method and not
\* expired passes the gate, and the next handler reads from the context the
\* user id and username the token carries.
C9_ValidTokenProceeds ==
    (/\ last.op = "AuthMiddleware"
     /\ Carries(last.req)
     /\ Presented(last.req).segments = 3
     /\ Presented(last.req).alg \in HMACAlgs
     /\ VerifySignature(Presented(last.req), cfg.Secret)
     /\ \/ Presented(last.req).claims.exp = NoDate
        \/ last.at < Presented(last.req).claims.exp)
    => Accepted(last.res, Presented(last.req).claims)

\* C9 witness: such a token came in the header and the request went on
C9_Witness ==
    /\ last.op = "AuthMiddleware"
    /\ ~last.req.cookie.present
    /\ BearerForm(last.req.header)
    /\ VerifySignature(last.req.header.cred, cfg.Secret)
    /\ last.res.next
    /\ last.res.ctx.userID = last.req.header.cred.claims.user_id

\* C10: with a cookie 'token' in the request the gate decides on the cookie
\* alone: a cookie token that does not verify is turned away whatever the
\* header carries, one that verifies is let through whatever the header is.
C10_CookieFirst ==
    (last.op = "AuthMiddleware" /\ last.req.cookie.present) =>
        LET p == ParseWithClaims(last.req.cookie.value, cfg.Secret, last.at) IN
        IF p.valid
        THEN Accepted(last.res, last.req.cookie.value.claims)
        ELSE Rejected(last.res) /\ last.res.body = "invalid token"

\* C10 witness: a cookie token that does not verify was turned away although
\* the header carried a Bearer token that does
C10_Witness ==
    /\ last.op = "AuthMiddleware"
    /\ last.req.cookie.present
    /\ ~ParseWithClaims(last.req.cookie.value, cfg.Secret, last.at).valid
    /\ BearerForm(last.req.header)
    /\ ParseWithClaims(last.req.header.cred, cfg.Secret, last.at).valid
    /\ Rejected(last.res)

\* why a token string fails verification at the gate at time t
Unparsable(tok) == tok.segments # 3 \/ tok.alg \notin KnownAlgs
NonHMAC(tok) == ~Unparsable(tok) /\ tok.alg \notin HMACAlgs
Forged(tok, secret) ==
    ~Unparsable(tok) /\ tok.alg \in HMACAlgs /\ ~VerifySignature(tok, secret)
Expired(tok, secret, t) ==
    /\ ~Unparsable(tok) /\ tok.alg \in HMACAlgs /\ VerifySignature(tok, secret)
    /\ tok.claims.exp # NoDate /\ t >= tok.claims.exp
FailsVerification(tok, secret, t) ==
    \/ Unparsable(tok) \/ NonHMAC(tok) \/ Forged(tok, secret)
    \/ Expired(tok, secret, t)

\* C11: every token that fails verification at the gate, for whatever reason
\* (unparsable, non-HMAC method, forged or signed with another secret,
\* expired), gets one and the same response, 401 with body "invalid token":
\* the response to the token just presented equals the response any other
\* failing token would get, in the cookie or in the header.
C11_InvalidTokenUniform ==
    (/\ last.op = "AuthMiddleware"
     /\ Carries(last.req)
     /\ FailsVerification(Presented(last.req), cfg.Secret, last.at))
    => /\ last.res = Abort(401, "invalid token")
       /\ \A t2 \in GateTokens :
              FailsVerification(t2, cfg.Secret, last.at)
                  => /\ Middleware(Request(Cookie(t2), NoHeader), cfg.Secret,
                                   last.at) = last.res
                     /\ Middleware(Request(NoCookie, Bearer(t2)), cfg.Secret,
                                   last.at) = last.res

\* C11 witness: an expired token with a good signature was turned away with
\* the response a forged one gets
C11_Witness ==
    /\ last.op = "AuthMiddleware"
    /\ Carries(last.req)
    /\ Expired(Presented(last.req), cfg.Secret, last.at)
    /\ last.res.body = "invalid token"
    /\ \E t2 \in GateTokens : Forged(t2, cfg.Secret)

\* rows i..j of a listing order, as GetUsers hands them out
Page(ord, limit, offset) ==
    [i \in 1..(IF offset < Min(Len(ord), offset + limit)
               THEN Min(Len(ord), offset + limit) - offset ELSE 0) |->
        ScanListed(ord[offset + i])]

\* C12: GetUsers(limit, offset) with limit > 0 and offset >= 0 succeeds with
\* a non-nil sequence that is, of the accounts in some newest-created-first
\* order, those after the first offset, at most limit of them: its created_at
\* never increases, every account newer than its i-th is among the offset
\* skipped or the i - 1 before it, it holds min(limit, n - offset) accounts,
\* and it is empty when offset is at or beyond the number n of accounts.
C12_ListNewestFirst ==
    (last.op = "GetUsers" /\ last.limit > 0 /\ last.offset >= 0) =>
        LET n == Cardinality(users)
            out == last.users
        IN  /\ last.err = NoErr
            /\ ~last.isNil
            /\ \E ord \in NewestFirst(users) :
                   out = Page(ord, last.limit, last.offset)
            /\ \A i, j \in 1..Len(out) :
                   i < j => out[i].CreatedAt >= out[j].CreatedAt
            /\ \A i \in 1..Len(out) :
                   Cardinality({u \in users : u.CreatedAt > out[i].CreatedAt})
                       <= last.offset + i - 1
            /\ Len(out) <= last.limit
            /\ Len(out) = (IF last.offset >= n THEN 0
                           ELSE Min(last.limit, n - last.offset))
            /\ last.offset >= n => out = <<>>

\* C12 witness: of two accounts created at different times, a listing with
\* limit 1 and offset 1 returned the older one alone
C12_Witness ==
    /\ last.op = "GetUsers"
    /\ last.limit = 1 /\ last.offset = 1
    /\ Cardinality(users) = 2
    /\ Len(last.users) = 1
    /\ \E u \in users : u.CreatedAt > last.users[1].CreatedAt

\* C13: GetUsers(limit, offset) calls the store once, with limit replaced by
\* 10 when it is <= 0 and offset replaced by 0 when it is < 0; no
\* non-positive limit and no negative offset reaches the store.
C13_ListNormalised ==
    last.op = "GetUsers" =>
        /\ Len(last.calls) = 1
        /\ last.calls[1].fn = "GetUsers"
        /\ last.calls[1].args =
               <<IF last.limit <= 0 THEN 10 ELSE last.limit,
                 IF last.offset < 0 THEN 0 ELSE last.offset>>

\* C14: for an id no account has, UpdateProfile, UpdateEmail, UpdatePassword
\* and Delete of the repository each return ErrNotFound and leave the rows as
\* they are, whatever username or email is supplied, one held by an existing
\* account included; and so do ChangeProfile, ChangeEmail and Delete of the
\* service, which hand these calls through.
C14_UpdatesNotFound ==
    [][/\ \A id \in IDs \ UserIDs(users) :
              /\ \A u \in Usernames :
                     /\ RepoUpdateProfile(users, id, now, u).err = ErrNotFound
                     /\ RepoUpdateProfile(users, id, now, u).users = users
              /\ \A e \in Emails :
                     /\ RepoUpdateEmail(users, id, now, e).err = ErrNotFound
                     /\ RepoUpdateEmail(users, id, now, e).users = users
              /\ \A pw \in Passwords, salt \in Salts :
                     LET h == GenerateFromPassword(salt, pw) IN
                     /\ RepoUpdatePassword(users, id, now, h).err = ErrNotFound
                     /\ RepoUpdatePassword(users, id, now, h).users = users
              /\ RepoDelete(users, id).err = ErrNotFound
              /\ RepoDelete(users, id).users = users
       /\ (/\ last'.op \in {"ChangeProfile", "ChangeEmail", "Delete"}
           /\ last'.id \notin UserIDs(users))
              => last'.err = ErrNotFound /\ users' = users]_vars

\* C14 witness: a ChangeProfile of an id no account has, to a username an
\* existing account holds, returned ErrNotFound
C14_Witness ==
    /\ last.op = "ChangeProfile"
    /\ last.id \notin UserIDs(users)
    /\ HasUsername(users, last.username)
    /\ last.err = ErrNotFound

\* C15: for an existing account, UpdateProfile to a username another account
\* holds returns ErrDuplicateUsername and UpdateEmail to an email another
\* account holds returns ErrDuplicateEmail, the rows staying as they are;
\* to a value no other account holds, the account's own included, the update
\* succeeds, sets the value and leaves every other account alone.  The same
\* holds of ChangeProfile and ChangeEmail, which hand the calls through.
C15_UpdatesDuplicate ==
    [][/\ \A id \in UserIDs(users) :
              /\ \A u \in Usernames :
                     LET r == RepoUpdateProfile(users, id, now, u) IN
                     IF \E o \in users : o.ID # id /\ o.Username = u
                     THEN r.err = ErrDuplicateUsername /\ r.users = users
                     ELSE r.err = NoErr
              /\ \A e \in Emails :
                     LET r == RepoUpdateEmail(users, id, now, e) IN
                     IF \E o \in users : o.ID # id /\ o.Email = e
                     THEN r.err = ErrDuplicateEmail /\ r.users = users
                     ELSE r.err = NoErr
       /\ (last'.op = "ChangeProfile" /\ last'.id \in UserIDs(users)) =>
              IF \E o \in users : o.ID # last'.id /\ o.Username = last'.username
              THEN last'.err = ErrDuplicateUsername /\ users' = users
              ELSE /\ last'.err = NoErr
                   /\ UserIDs(users') = UserIDs(users)
                   /\ RowByID(users', last'.id).Username = last'.username
                   /\ RowByID(users', last'.id).Email =
                          RowByID(users, last'.id).Email
                   /\ \A o \in users : o.ID # last'.id => o \in users'
       /\ (last'.op = "ChangeEmail" /\ last'.id \in UserIDs(users)) =>
              IF \E o \in users : o.ID # last'.id /\ o.Email = last'.email
              THEN last'.err = ErrDuplicateEmail /\ users' = users
              ELSE /\ last'.err = NoErr
                   /\ UserIDs(users') = UserIDs(users)
                   /\ RowByID(users', last'.id).Email = last'.email
                   /\ RowByID(users', last'.id).Username =
                          RowByID(users, last'.id).Username
                   /\ \A o \in users : o.ID # last'.id => o \in users']_vars

\* C15 witness: a ChangeEmail to an email another account holds returned
\* ErrDuplicateEmail with both accounts in the table
C15_Witness ==
    /\ last.op = "ChangeEmail"
    /\ last.id \in UserIDs(users)
    /\ \E o \in users : o.ID # last.id /\ o.Email = last.email
    /\ last.err = ErrDuplicateEmail

\* the calls that have returned
Returned(op) == {p \in Procs : procs[p].op = op /\ procs[p].pc = "done"}

\* C16: ChangeProfile and ChangeEmail make one call of the repository and
\* return nil when it returned nil, its ErrDuplicateUsername (ChangeProfile)
\* or ErrDuplicateEmail (ChangeEmail) as it is, its ErrNotFound as it is, and
\* for every other error of the repository a new error whose text is exactly
\* "internal error", which wraps nothing and carries no SQLSTATE.
C16_ChangeErrors ==
    /\ \A p \in Returned("ChangeProfile") :
           LET f == procs[p]
               g == f.calls[1].err
           IN  /\ Len(f.calls) = 1 /\ f.calls[1].fn = "UpdateProfile"
               /\ IF g \in {NoErr, ErrDuplicateUsername, ErrNotFound}
                  THEN f.err = g
                  ELSE /\ f.err.msg = "internal error"
                       /\ f.err.wraps = "" /\ f.err.code = ""
                       /\ f.err.kind \notin {g.kind, g.wraps}
    /\ \A p \in Returned("ChangeEmail") :
           LET f == procs[p]
               g == f.calls[1].err
           IN  /\ Len(f.calls) = 1 /\ f.calls[1].fn = "UpdateEmail"
               /\ IF g \in {NoErr, ErrDuplicateEmail, ErrNotFound}
                  THEN f.err = g
                  ELSE /\ f.err.msg = "internal error"
                       /\ f.err.wraps = "" /\ f.err.code = ""
                       /\ f.err.kind \notin {g.kind, g.wraps}

\* C16 witness: a ChangeProfile whose UpdateProfile failed because the
\* database could not be reached returned "internal error"
C16_Witness ==
    \E p \in Returned("ChangeProfile") :
        /\ ErrorsIs(procs[p].calls[1].err, StoreErr)
        /\ procs[p].err = Errorf("internal error")

\* C17: GetByID of an id no account has and GetByEmail of an email no account
\* has return ErrNotFound, the repository's own error for a missing account,
\* from the repository and from the service alike, and change no row.
C17_ReadsNotFound ==
    [][/\ (last'.op = "GetByID" /\ last'.id \notin UserIDs(users))
              => /\ ErrorsIs(RepoGetByID(users, last'.id).err, ErrNotFound)
                 /\ ErrorsIs(last'.err, ErrNotFound)
                 /\ users' = users
       /\ (last'.op = "GetByEmail" /\ ~HasEmail(users, last'.email))
              => /\ ErrorsIs(RepoGetByEmail(users, last'.email).err,
                             ErrNotFound)
                 /\ ErrorsIs(last'.err, ErrNotFound)
                 /\ users' = users]_vars

\* two calls that were in flight at the same time
Concurrent(p, q) == q \in procs[p].with \/ p \in procs[q].with

\* two calls of Register that ask for the same username or the same email
Clash(p, q) ==
    \/ procs[p].req.Username = procs[q].req.Username
    \/ procs[p].req.Email = procs[q].req.Email

\* C18 as claimed: in every state reached by interleaving concurrent
\* Register, ChangeProfile, ChangeEmail and Delete calls no two accounts share
\* a username or an email, and of two concurrent Registers with the same
\* username or the same email at most one returns an id.
C18_UniqueAsClaimed ==
    /\ TableOK(users)
    /\ \A p, q \in Returned("Register") :
           (p # q /\ Concurrent(p, q) /\ Clash(p, q))
               => ~(procs[p].err = NoErr /\ procs[q].err = NoErr)

\* C18 amended: ... no two accounts share a username or an email; a Register
\* returns an id only if, when its INSERT runs, no account holds its username
\* or its email, and the id it returns is a new one; so of two concurrent
\* Registers with the same username or email both return an id only when the
\* account of the first no longer holds that username or email when the
\* INSERT of the second runs, and the two ids differ.
C18_Unique ==
    [][/\ TableOK(users')
       /\ \A p \in Procs :
              (/\ procs[p].op = "Register" /\ procs[p].pc = "called"
               /\ procs'[p].pc = "done" /\ procs'[p].err = NoErr)
              => /\ ~HasUsername(users, procs[p].req.Username)
                 /\ ~HasEmail(users, procs[p].req.Email)
                 /\ procs'[p].out \notin UserIDs(users)
                 /\ procs'[p].out \in UserIDs(users')
                 /\ \A q \in Returned("Register") :
                        (q # p /\ procs[q].err = NoErr)
                            => procs[q].out # procs'[p].out]_vars

\* C18 witness: of two concurrent Registers with the same username one
\* returned an id and the other an error, and the account is in the table
C18_Witness ==
    \E p, q \in Returned("Register") :
        /\ p # q /\ Concurrent(p, q)
        /\ procs[p].req.Username = procs[q].req.Username
        /\ procs[p].err = NoErr /\ procs[q].err # NoErr
        /\ procs[p].out \in UserIDs(users)

\* a call of the repository that failed because the database could not be
\* reached: neither a missing row nor a uniqueness conflict
StoreFailure(err) == ErrorsIs(err, StoreErr)

\* what the service returns for a failure it does not explain to the caller
Internal == Errorf("internal error")

\* C19: whichever method of the service is called (Register, Login, GetByID,
\* GetByEmail, ChangeProfile, ChangeEmail, ChangePassword, Delete, GetUsers),
\* when a call it makes of the repository fails because the database cannot
\* be reached, the method returns the error "internal error": not "invalid
\* credentials", and not the error of the storage layer, bare or wrapped.
C19_StoreFailureInternal ==
    \A p \in Procs :
        (/\ procs[p].op # "idle" /\ procs[p].pc = "done"
         /\ \E i \in 1..Len(procs[p].calls) :
                StoreFailure(procs[p].calls[i].err))
        => /\ procs[p].err = Internal
           /\ procs[p].err.msg # "invalid credentials"
           /\ ~StoreFailure(procs[p].err)

\* the methods that do answer a store failure with "internal error":
\* ChangeProfile, ChangeEmail, and ChangePassword when its UpdatePassword fails
C19_InternalWhereMapped ==
    \A p \in Procs :
        (/\ procs[p].op \in {"ChangeProfile", "ChangeEmail", "ChangePassword"}
         /\ procs[p].pc = "done"
         /\ procs[p].calls # <<>>
         /\ procs[p].calls[Len(procs[p].calls)].fn
                \in {"UpdateProfile", "UpdateEmail", "UpdatePassword"}
         /\ StoreFailure(procs[p].calls[Len(procs[p].calls)].err))
        => procs[p].err = Internal

\* C20: no method of the service calls the repository again after a failure
\* or repeats a call: in every call of the service, in flight or returned, no
\* repository method appears twice among the calls made, and a repository
\* call that failed is the last one made, the method having returned.
C20_NoRetry ==
    \A p \in Procs :
        procs[p].op # "idle" =>
            LET calls == procs[p].calls IN
            /\ \A i, j \in 1..Len(calls) :
                   i # j => calls[i].fn # calls[j].fn
            /\ \A i \in 1..Len(calls) :
                   calls[i].err # NoErr
                       => i = Len(calls) /\ procs[p].pc = "done"
            /\ procs[p].pc = "done" => Len(calls) >= 1

\* C20 witness: a ChangePassword whose UpdatePassword failed, the database
\* having gone away after its GetByID, returned with those two calls made
C20_Witness ==
    \E p \in Returned("ChangePassword") :
        /\ Len(procs[p].calls) = 2
        /\ procs[p].calls[1].err = NoErr
        /\ StoreFailure(procs[p].calls[2].err)
        /\ procs[p].err = Internal

\* C21: nothing on the server revokes a token.  Logout answers 200, sends
\* the cookie back empty and expired and changes nothing of the server;
\* ChangePassword leaves the tokens issued and the secret as they are; and a
\* token Login returned is accepted by the gate at every time before its
\* expiry, also right after a Logout and after a ChangePassword succeeded on
\* its account.
C21_NoRevocation ==
    [][/\ last'.op = "Logout" =>
              /\ last'.res.status = 200
              /\ last'.res.cookie.set /\ last'.res.cookie.name = "token"
              /\ last'.res.cookie.maxAge < 0
              /\ UNCHANGED <<users, nextID, now, cfg, issued, store, procs>>
       /\ last'.op = "ChangePassword" => issued' = issued /\ cfg' = cfg
       /\ (/\ last'.op = "AuthMiddleware" /\ Carries(last'.req)
           /\ Presented(last'.req) \in issued
           /\ last'.at < Presented(last'.req).claims.exp)
              => Accepted(last'.res, Presented(last'.req).claims)]_vars

\* C21 witness: a token was accepted although the password of its account,
\* with which it was obtained, has been changed since
C21_Witness ==
    /\ last.op = "AuthMiddleware"
    /\ Carries(last.req)
    /\ Presented(last.req) \in issued
    /\ Accepted(last.res, Presented(last.req).claims)
    /\ \E u \in users :
           /\ u.ID = Presented(last.req).claims.user_id
           /\ CompareHashAndPassword(u.Password, "pw2")
           /\ u.UpdatedAt > Presented(last.req).claims.iat

\* C22: whatever method of the service it is, when a call it makes of the
\* repository returns ErrNotFound the method returns that ErrNotFound; so a
\* ChangePassword whose account is deleted between its GetByID and its
\* UpdatePassword returns ErrNotFound, and no account has that id then.
C22_NotFoundUnchanged ==
    [][\A p \in Procs :
          (/\ procs[p].op # "idle" /\ procs[p].pc # "done"
           /\ procs'[p].pc = "done"
           /\ \E i \in 1..Len(procs'[p].calls) :
                  procs'[p].calls[i].err = ErrNotFound)
          => /\ procs'[p].err = ErrNotFound
             /\ procs[p].op = "ChangePassword"
                    => procs[p].id \notin UserIDs(users')]_vars

\* C24: a ChangePassword returns nil only if the old password it was given
\* verifies against the hash the account holds at the moment its
\* UpdatePassword runs.
C24_OldPasswordAtWrite ==
    [][\A p \in Procs :
          (/\ procs[p].op = "ChangePassword" /\ procs[p].pc = "read"
           /\ procs'[p].pc = "done" /\ procs'[p].err = NoErr)
          => \E u \in users :
                 /\ u.ID = procs[p].id
                 /\ CompareHashAndPassword(u.Password,
                                           procs[p].req.OldPassword)]_vars

\* the three calls that update one field of an account
Updates == {"ChangeProfile", "ChangeEmail", "ChangePassword"}

\* C23: an account that stays in the table keeps its id and its created_at
\* whatever is called; it changes only by a successful update of that very
\* account, which sets the one field it is for (username, email, or the
\* credential) and updated_at, the time of the write, and nothing else; and an
\* update that returns an error leaves every row as it was.
C23_UpdatesOnlyTheirField ==
    [][/\ \A u \in users :
              u.ID \in UserIDs(users') =>
                  LET v == RowByID(users', u.ID) IN
                  /\ v.CreatedAt = u.CreatedAt
                  /\ v # u =>
                         /\ last'.op \in Updates
                         /\ last'.id = u.ID
                         /\ last'.err = NoErr
                         /\ v.UpdatedAt = now
                         /\ last'.op = "ChangeProfile" =>
                                v = [u EXCEPT !.Username = last'.username,
                                              !.UpdatedAt = now]
                         /\ last'.op = "ChangeEmail" =>
                                v = [u EXCEPT !.Email = last'.email,
                                              !.UpdatedAt = now]
                         /\ last'.op = "ChangePassword" =>
                                /\ v = [u EXCEPT !.Password = v.Password,
                                                 !.UpdatedAt = now]
                                /\ CompareHashAndPassword(v.Password,
                                       last'.req.NewPassword)
       /\ (last'.op \in Updates /\ last'.err # NoErr) => users' = users
       /\ (last'.op \in Updates /\ last'.err = NoErr) =>
              /\ UserIDs(users') = UserIDs(users)
              /\ RowByID(users', last'.id).UpdatedAt = now]_vars

\* C23 witness: a ChangePassword succeeded some time after the account was
\* created, and the account has its created_at and a later updated_at
C23_Witness ==
    /\ last.op = "ChangePassword"
    /\ last.err = NoErr
    /\ last.id \in UserIDs(users)
    /\ RowByID(users, last.id).UpdatedAt = now
    /\ RowByID(users, last.id).CreatedAt < now
    /\ Cardinality(users) = 2

\* C25: the gate decides without the account store.  A token Login returned,
\* presented before its expiry, is let through with the user id and the
\* username it carries, whatever has become of the account: when the account
\* has been deleted the gate still lets through and GetProfile then answers
\* 404 "user not found"; when the account has been renamed the gate still
\* attaches the username of the time of the login, and GetProfile answers
\* 200 with the account as it is now.
C25_GateIgnoresStore ==
    (/\ last.op = "GetProfile" /\ Carries(last.req)
     /\ Presented(last.req) \in issued
     /\ last.at < Presented(last.req).claims.exp)
    => LET c == Presented(last.req).claims IN
       /\ Accepted(last.gate, c)
       /\ IF c.user_id \in UserIDs(users)
          THEN /\ last.res.status = 200
               /\ last.res.user = ToResponse(RowByID(users, c.user_id))
          ELSE /\ last.res.status = 404
               /\ last.res.body = "user not found"
               /\ last.res.user = NoUserResponse

\* C25 witness: the token of a deleted account passed the gate and
\* GetProfile answered 404
C25_Witness ==
    /\ last.op = "GetProfile"
    /\ Carries(last.req)
    /\ Presented(last.req) \in issued
    /\ Presented(last.req).claims.user_id \notin UserIDs(users)
    /\ last.gate.next
    /\ last.res.status = 404

\* the token of a renamed account passed the gate with the old username
C25_WitnessRenamed ==
    /\ last.op = "GetProfile"
    /\ Carries(last.req)
    /\ Presented(last.req) \in issued
    /\ last.gate.next
    /\ \E u \in users :
           /\ u.ID = last.gate.ctx.userID
           /\ u.Username # last.gate.ctx.username
           /\ last.res.user.username = u.Username

\* what a Login with these credentials would return in the state a step
\* leaves
LoginWouldFail(rows, email, password) ==
    SvcLogin(rows, cfg, now, now, [Email |-> email, Password |-> password]).err
        = Errorf("invalid credentials")

C26_WitnessOldEmail ==
    /\ last.op = "Login"
    /\ last.err = Errorf("invalid credentials")
    /\ \E u \in users :
           /\ u.Email # last.req.Email
           /\ u.UpdatedAt > u.CreatedAt
           /\ CompareHashAndPassword(u.Password, last.req.Password)
    /\ nextID = 2

\* the text fields of a response value
TextFields(resp) == DOMAIN resp \ {"id", "ID"}

\* C27: the stored credential never leaves through a listing or a response.
\* Every account GetUsers returns has an empty Password; ToResponse of an
\* account is exactly id, username, email, created_at and updated_at, and
\* ToUsersResponse of a listing is exactly ID, Username, CreatedAt and
\* UpdatedAt for each account; no field of either holds the account's hash.
C27_NoCredentialOut ==
    /\ \A u \in users :
           /\ u.Password # ""
           /\ DOMAIN ToResponse(u) =
                  {"id", "username", "email", "created_at", "updated_at"}
           /\ \A f \in TextFields(ToResponse(u)) : ToResponse(u)[f] # u.Password
           /\ LET v == ToUsersResponse(<<u>>)[1] IN
              /\ DOMAIN v = {"ID", "Username", "CreatedAt", "UpdatedAt"}
              /\ \A f \in TextFields(v) : v[f] # u.Password
    /\ (last.op = "GetUsers" /\ last.err = NoErr) =>
           /\ \A i \in 1..Len(last.users) :
                  /\ last.users[i].Password = ""
                  /\ last.users[i].ID \in UserIDs(users)
           /\ LET v == ToUsersResponse(last.users) IN
              /\ Len(v) = Len(last.users)
              /\ \A i \in 1..Len(v), u \in users :
                     \A f \in TextFields(v[i]) : v[i][f] # u.Password

\* C27 witness: a listing returned two accounts, both stored with a hash
C27_Witness ==
    /\ last.op = "GetUsers"
    /\ last.err = NoErr
    /\ Len(last.users) = 2
    /\ \A i \in 1..2 :
           /\ last.users[i].Password = ""
           /\ RowByID(users, last.users[i].ID).Password # ""

\* C28: GET /users/:id with a well-formed id answers 404 "user not found"
\* when no account has the id, and 500 "internal error" only when the lookup
\* failed for another reason; with an id that is no UUID it answers 400 and
\* calls nothing of the service.
C28_GetByIDStatus ==
    last.op = "GetUser" =>
        LET uid == ParseUUID(last.param) IN
        /\ ~uid.ok => /\ last.res.status = 400
                      /\ last.service = <<>>
        /\ (uid.ok /\ last.wasUp /\ uid.id \notin UserIDs(users)) =>
               /\ last.res.status = 404
               /\ last.res.body = "user not found"
        /\ last.res.status = 500 =>
               /\ last.res.body = "internal error"
               /\ ~last.wasUp

\* the errors Login returns
LoginErrors ==
    {Errorf("invalid credentials"), Errorf("failed to generate token")}

\* C29: POST /auth/signin sets the cookie "token" only when Login succeeds.
\* On success it answers 200 with the token in the body and sets the cookie
\* "token" to the same token, HttpOnly, with max-age ExpirationHours * 3600
\* and Secure exactly when App.Mode is "release"; on every error of Login,
\* a failure to sign the token included, it answers 401 "invalid email or
\* password" and sets no cookie; on a body that does not bind or does not
\* validate it answers 400 and does not call Login.
C29_SignInCookie ==
    /\ last.op = "SignIn" =>
           LET req == [Email |-> last.body.Email,
                       Password |-> last.body.Password]
               good == last.body.json /\ req.Email # "" /\ req.Password # ""
                           /\ StrictEmail(req.Email)
           IN
           /\ last.res.cookie.set <=> last.res.status = 200
           /\ ~good => /\ last.res.status = 400
                       /\ last.service = <<>>
           /\ good =>
                  /\ Len(last.service) = 1
                  /\ last.service[1].fn = "Login"
                  /\ last.res.status \in {200, 401}
                  /\ last.res.status = 200 <=> last.login.err = NoErr
           /\ last.res.status = 200 =>
                  /\ last.login.token # Malformed
                  /\ last.res.token = last.login.token
                  /\ last.res.cookie =
                         [set |-> TRUE, name |-> "token",
                          value |-> last.login.token,
                          maxAge |-> cfg.ExpirationHours * SecondsPerHour,
                          secure |-> (cfg.Mode = "release"),
                          httpOnly |-> TRUE]
           /\ last.res.status = 401 =>
                  /\ last.res.body = "invalid email or password"
                  /\ last.res.token = Malformed
    /\ \A e \in LoginErrors :
           LET r == SignInRespond([token |-> Malformed, err |-> e,
                                   calls |-> <<>>], cfg)
           IN  /\ r.status = 401
               /\ r.body = "invalid email or password"
               /\ ~r.cookie.set

\* C29 witness: in release mode a sign-in succeeded and set the cookie
C29_Witness ==
    /\ last.op = "SignIn"
    /\ last.res.status = 200
    /\ cfg.Mode = "release"
    /\ last.res.cookie.secure
    /\ last.res.cookie.value = last.res.token

\* a sign-in was answered 401 because the database could not be reached
C29_WitnessRefused ==
    /\ last.op = "SignIn"
    /\ last.res.status = 401
    /\ store = "down"
    /\ ~last.res.cookie.set

C30_WitnessGraceful ==
    /\ server.pc = "returned"
    /\ server.bound
    /\ server.elapsed < ShutdownTimeout
    /\ server.ret = "nil"

====
